---- MODULE Spec2Model ----
(***************************************************************************)
(* A model of term-chat: the server's acceptor, connection handler,        *)
(* client registry and broadcast (server/src/server.rs), the secure        *)
(* channel (common/src/secure.rs), the record codecs                       *)
(* (common/src/codec.rs) and the client's editor and interactive loop      *)
(* (client/src/app/vim.rs, client/src/app.rs).                             *)
(*                                                                         *)
(* Several specifications share the module.  SpecServer runs the          *)
(* acceptor, the handlers and the broadcast tasks; SpecFaulty, SpecStray,  *)
(* SpecListener and SpecRunLoop run parts of the server with failing       *)
(* sends and accepts, records out of place and run_loop from its start.    *)
(* SpecSecure, SpecHandshake and SpecIntruder run two peers of one         *)
(* connection through SecureStream.  SpecCodec and SpecGarbled send        *)
(* records through CborStream and CompressedCborStream.  SpecClient feeds  *)
(* key events to the client's editor.  Each leaves the variables of the    *)
(* other parts at their initial values.                                    *)
(***************************************************************************)
EXTENDS Integers, Sequences, FiniteSets, TLC

(***************************************************************************)
(* Bounds of the server model.                                             *)
(***************************************************************************)
\* Connections accepted in one run.
MaxConns == 2
\* SendMessage records read by the server in one run.
MaxSends == 2
\* The largest configured max_concurrency.
MaxK == 2
\* Broadcast tasks spawned in one run (joins, exits and SendMessages each
\* spawn one).
MaxTasks == 3

\* Accepts and sends that fail and records that are out of place, in one
\* run.
MaxFaults == 1
\* The most listen addresses of the settings.
MaxListeners == 2

Conns == 1..MaxConns
\* One listener per configured listen address.
Listeners == 1..MaxListeners
\* Names a JoinRequest may carry, and peer socket addresses.
Names == {"alice"}
Addrs == {5001, 5002}
Msgs == {"hi"}

\* ClientId { name, addr }
ClientId(name, addr) == <<name, addr>>

Ids == Names \X Addrs

Tasks == 1..MaxTasks

\* No connection / no task.
NoConn == 0

VARIABLES
    \* ---- server ----
    max_concurrency,  \* ServerSettings.max_concurrency
    listen_addresses, \* ServerSettings.listen_addresses: how many there are
    rpc,              \* run_loop: "bind" | "spawn" | "wait" | "ok" | "err"
    nbound,           \* listeners bound so far
    lpc,              \* listener -> "none" (no task) | "accept" | "limit"
    futures,          \* listener -> handlers pushed and not yet yielded by next()
    nconns,           \* connections accepted so far
    hpc,              \* connection -> where its handler task stands
    hlistener,        \* connection -> the listener that accepted it
    haddr,            \* connection -> peer address
    client_id,        \* connection -> the ClientId built at join (or <<>>)
    target,           \* connection -> the record clients.get(&client_id) returned
    transport,        \* connection -> the stream split_message_stream built
    clients,          \* the registry: ClientId -> connection whose record it holds
    lock,             \* connection -> who holds its write_msg mutex
    write_msg,        \* connection -> frames sent on its sink, in order
    tasks,            \* broadcast tasks
    ntasks,           \* broadcast tasks spawned so far
    origin,           \* task -> the handler that spawned it, and on what
    nsends,           \* SendMessage records read so far
    \* ---- history of the server run ----
    regver,           \* registry mutations so far
    ninserts,         \* registry inserts so far (join attempts accepted)
    liveids,          \* identities inserted and not removed since
    nremoves,         \* connection -> registry removals its handler made
    nexitcasts,       \* connection -> exit broadcasts its handler spawned
    faults,           \* sends that failed and records that did not decode
    \* ---- record codecs: one connection per stream kind ----
    cwire,            \* stream kind -> bytes written and not yet read
    csent,            \* stream kind -> records passed to start_send, in order
    crecv,            \* stream kind -> items poll_next yielded, in order
    cfault,           \* the frames a sender wrote malformed
    \* ---- secure channel: the two peers of one connection ----
    spc,              \* peer -> "new" | "sent" | "established" | "failed"
    ssecret,          \* peer -> its EphemeralSecret
    saes,             \* peer -> the key of its Aes256Gcm
    swire,            \* peer -> bytes it wrote that its peer has not read
    sout,             \* peer -> kinds of the envelopes it transmitted, in order
    ssent,            \* peer -> items passed to its start_send, in order
    srecv,            \* peer -> items its poll_next yielded, in order
    sseen,            \* peer -> what its inner stream yielded, in order
    smade,            \* peer -> the envelopes it built and sent, in order
    shs,              \* peer -> what its handshake() returned
    sclosed,          \* peer -> its end of the transport is closed
    nadv,             \* alterations of the traffic so far
    \* ---- client: the editor widget and the interactive loop ----
    mode,             \* AppState.mode: the VimMode
    prev_action,      \* SendMessageWidget.prev_action
    text_area,        \* the content of SendMessageWidget.text_area
    command_text_area,\* the first line of SendMessageWidget.command_text_area
    events,           \* the InteractiveEvents in the channel, in order
    ipc,              \* interactive_loop: "running" | "exited"
    writes,           \* contents of the spawned writes that have not run
    wrote,            \* contents written to the server connection, in order
    entered,          \* the commands entered in Command mode, in order
    nkeys             \* key events handled so far

\* The acceptor's variables, each connection's, each handler's, the
\* registry's, the sinks' and the broadcast tasks'.
runVars == <<listen_addresses, rpc, nbound>>
lsnVars == <<max_concurrency, lpc, futures>>
conVars == <<nconns, hlistener, haddr, transport>>
hdlVars == <<hpc, client_id, target>>
regVars == <<clients, regver, ninserts, liveids>>
snkVars == <<lock, write_msg>>
tskVars == <<tasks, ntasks, origin>>
cntVars == <<nsends, nremoves, nexitcasts>>

srvVars == <<runVars, lsnVars, conVars, hdlVars, regVars, snkVars, tskVars,
             cntVars, faults>>

codVars == <<cwire, csent, crecv, cfault>>

secVars == <<spc, ssecret, saes, swire, sout, ssent, srecv, sseen, smade,
             shs, sclosed, nadv>>

cliVars == <<mode, prev_action, text_area, command_text_area, events, ipc,
             writes, wrote, entered, nkeys>>

\* What the honest steps of the secure channel leave alone.
advVars == <<sclosed, nadv>>

\* What a step of the server, of the codec streams and of the secure
\* channel leaves alone (for the server: a step in which no send fails and
\* every record decodes).
othVars == <<codVars, secVars, runVars, cliVars>>
notSrv == <<othVars, faults>>
notCod == <<srvVars, secVars, cliVars>>
notSec == <<srvVars, codVars, cliVars>>
notCli == <<srvVars, codVars, secVars>>

vars == <<srvVars, codVars, secVars, cliVars>>

(***************************************************************************)
(* Server: values.                                                         *)
(***************************************************************************)
NoId == <<>>

\* Who holds a write_msg mutex.  Which of several lock() callers gets the
\* mutex next is the order in which they called, and calls of different
\* tasks come in any order.
Handler(c) == <<"handler", c>>
Task(t) == <<"task", t>>
Unlocked == <<"nobody", 0>>

\* What split_message_stream builds: a length-delimited framed stream, with
\* no SecureStream handshake.
split_message_stream == "Framed"

\* How a record travels on a stream of the given kind.
Envelope(kind) == IF kind = "Secure" THEN "Encrypted" ELSE "Plain"

\* ServerMessage values.  src and seq are history: the connection a
\* ReceiveMessage was read from and its position among that connection's
\* SendMessage records.
AcceptJoin == [type |-> "AcceptJoin", clients |-> {}, sender |-> NoId,
               message |-> "", src |-> NoConn, seq |-> 0]
ClientListUpdate(keys) == [type |-> "ClientListUpdate", clients |-> keys,
                           sender |-> NoId, message |-> "", src |-> NoConn,
                           seq |-> 0]
ReceiveMessage(id, m, c, n) == [type |-> "ReceiveMessage", clients |-> {},
                                sender |-> id, message |-> m, src |-> c,
                                seq |-> n]

\* A frame as sent on a sink: the message, the envelope it travels in and
\* (history) who sent it.
Frame(msg, by, kind) == [msg |-> msg, by |-> by, env |-> Envelope(kind)]

\* self.clients.pin_owned().keys()
Keys == {k \in Ids : clients[k] # NoConn}

\* The Arc<Client> values of the registry.
Values == {clients[k] : k \in Keys}

NoTask == [pc |-> "free", msg |-> AcceptJoin, todo |-> {}, rcpts |-> {},
           ver |-> 0]

\* A task nobody spawned yet.
NoOrigin == <<"none", NoConn>>

\* tokio::task::spawn(async move { this.broadcast(&message).await })
Spawn(msg) == [tasks EXCEPT ![ntasks + 1] =
                  [pc |-> "spawned", msg |-> msg, todo |-> {}, rcpts |-> {},
                   ver |-> regver]]

Finished(c) == hpc[c] \in {"aborted", "panicked", "done"}

\* Handler tasks of listener l that have started and not completed.
Active(l) == {c \in Conns : hlistener[c] = l /\ hpc[c] # "idle" /\ ~Finished(c)}

(***************************************************************************)
(* Server: the acceptor (Server::run_loop).                                *)
(***************************************************************************)
\* listener.accept() returned a connection: its handler is spawned and
\* pushed, then the concurrency limit is enforced.
Accept(l, a) ==
    /\ lpc[l] = "accept"
    /\ nconns < MaxConns
    /\ LET c == nconns + 1 IN
        /\ nconns' = c
        /\ hpc' = [hpc EXCEPT ![c] = "connected"]
        /\ hlistener' = [hlistener EXCEPT ![c] = l]
        /\ haddr' = [haddr EXCEPT ![c] = a]
        /\ transport' = [transport EXCEPT ![c] = split_message_stream]
        /\ futures' = [futures EXCEPT ![l] = @ \cup {c}]
    /\ lpc' = [lpc EXCEPT ![l] = "limit"]
    /\ UNCHANGED notSrv
    /\ UNCHANGED <<max_concurrency, client_id, target, regVars, snkVars,
                   tskVars, cntVars>>

\* while futures.len() >= max_concurrency: the condition is false.
LimitPassed(l) ==
    /\ lpc[l] = "limit"
    /\ Cardinality(futures[l]) < max_concurrency
    /\ lpc' = [lpc EXCEPT ![l] = "accept"]
    /\ UNCHANGED notSrv
    /\ UNCHANGED <<max_concurrency, futures, conVars, hdlVars, regVars,
                   snkVars, tskVars, cntVars>>

\* futures.next().await yields a handler that completed.
Reap(l, c) ==
    /\ lpc[l] = "limit"
    /\ Cardinality(futures[l]) >= max_concurrency
    /\ c \in futures[l]
    /\ Finished(c)
    /\ futures' = [futures EXCEPT ![l] = @ \ {c}]
    /\ UNCHANGED notSrv
    /\ UNCHANGED <<max_concurrency, lpc, conVars, hdlVars, regVars, snkVars,
                   tskVars, cntVars>>

\* futures.next().await on an empty FuturesUnordered yields None at once and
\* the loop tests its condition again.
ReapNone(l) ==
    /\ lpc[l] = "limit"
    /\ Cardinality(futures[l]) >= max_concurrency
    /\ futures[l] = {}
    /\ UNCHANGED vars

\* A listener loop that ends on an accept error.
ExitOnError == "exited"

\* Where the listener loop stands after accept() returned Err: `if let Ok`
\* has no else and the loop starts over.
AfterFailedAccept == "accept"

\* listener.accept() returned an error.
AcceptFailed(l) ==
    /\ lpc[l] = "accept"
    /\ Cardinality(faults) < MaxFaults
    /\ faults' = faults \cup {<<"accept", l, nconns>>}
    /\ lpc' = [lpc EXCEPT ![l] = AfterFailedAccept]
    /\ UNCHANGED othVars
    /\ UNCHANGED <<max_concurrency, futures, conVars, hdlVars, regVars,
                   snkVars, tskVars, cntVars>>

\* The listener tasks run_loop has spawned, and those that have ended.
Spawned == {l \in Listeners : lpc[l] # "none"}
Exited == {l \in Listeners : lpc[l] = "exited"}

\* What the server leaves alone while run_loop sets out.
notRun == <<codVars, secVars, cliVars, max_concurrency, listen_addresses, futures,
            conVars, hdlVars, regVars, snkVars, tskVars, cntVars, faults>>

\* TcpListener::bind(address).await? : the next address is bound.
Bind ==
    /\ rpc = "bind"
    /\ nbound < listen_addresses
    /\ nbound' = nbound + 1
    /\ UNCHANGED <<rpc, lpc, notRun>>

\* bind returned an error: `?` returns it from run_loop and the listeners
\* bound so far are dropped.
BindFailed ==
    /\ rpc = "bind"
    /\ nbound < listen_addresses
    /\ rpc' = "err"
    /\ nbound' = 0
    /\ UNCHANGED <<lpc, notRun>>

\* Every address is bound: the second loop starts.
Bound ==
    /\ rpc = "bind"
    /\ nbound = listen_addresses
    /\ rpc' = "spawn"
    /\ UNCHANGED <<nbound, lpc, notRun>>

\* futures.push(tokio::spawn(..)): the next listener's task is spawned.
SpawnListener(l) ==
    /\ rpc = "spawn"
    /\ l = Cardinality(Spawned) + 1
    /\ l <= nbound
    /\ lpc' = [lpc EXCEPT ![l] = "accept"]
    /\ UNCHANGED <<rpc, nbound, notRun>>

\* Every listener is spawned: run_loop is at futures.next().await.
Await ==
    /\ rpc = "spawn"
    /\ Cardinality(Spawned) = nbound
    /\ rpc' = "wait"
    /\ UNCHANGED <<nbound, lpc, notRun>>

\* futures.next() yields: a listener task has ended, or there is none.
\* run_loop returns Ok(()).
Return ==
    /\ rpc = "wait"
    /\ Spawned = {} \/ Exited # {}
    /\ rpc' = "ok"
    /\ UNCHANGED <<nbound, lpc, notRun>>

(***************************************************************************)
(* Server: the connection handler (Server::handle_new_connection).         *)
(***************************************************************************)
\* A handler that leaves the first loop by break and runs its exit sequence.
ExitAfterAbort == "removed"

\* Where the handler stands after `return` in the first loop: it has ended.
AfterAbort == "aborted"

\* Before the join: the stream ended, a frame was bad, or the payload was
\* no ClientMessage.  The handler returns.
RecvAbort(c) ==
    /\ hpc[c] = "connected"
    /\ hpc' = [hpc EXCEPT ![c] = AfterAbort]
    /\ UNCHANGED notSrv
    /\ UNCHANGED <<lsnVars, conVars, client_id, target, regVars, snkVars,
                   tskVars, cntVars>>

\* Before the join: a ClientMessage other than JoinRequest is logged.
RecvIgnored(c) ==
    /\ hpc[c] = "connected"
    /\ UNCHANGED vars

\* A handler that returns on a message it does not expect.
AbortOnOther == "aborted"

\* Where the handler stands after the arm `message => { warn!(..) }`: the
\* loop starts over at read_msg.next().
AfterOther == "connected"

\* Before the join: SendMessage, the one ClientMessage that is no
\* JoinRequest.  The step of RecvIgnored, with the read kept in faults.
RecvOther(c) ==
    /\ hpc[c] = "connected"
    /\ Cardinality(faults) < MaxFaults
    /\ faults' = faults \cup {<<"other", c, 0>>}
    /\ hpc' = [hpc EXCEPT ![c] = AfterOther]
    /\ UNCHANGED othVars
    /\ UNCHANGED <<lsnVars, conVars, client_id, target, regVars, snkVars,
                   tskVars, cntVars>>

\* An insertion that keeps the record an identity already has.
InsertIfAbsent(id, c) ==
    IF clients[id] = NoConn THEN [clients EXCEPT ![id] = c] ELSE clients

\* clients.insert(client_id.clone(), Arc::new(client))
Insert(id, c) == [clients EXCEPT ![id] = c]

\* Before the join: JoinRequest { name }.  The ClientId is built and the
\* Client record inserted.
RecvJoinRequest(c, name) ==
    /\ hpc[c] = "connected"
    /\ LET id == ClientId(name, haddr[c]) IN
        /\ client_id' = [client_id EXCEPT ![c] = id]
        /\ clients' = Insert(id, c)
    /\ regver' = regver + 1
    /\ ninserts' = ninserts + 1
    /\ liveids' = liveids \cup {ClientId(name, haddr[c])}
    /\ hpc' = [hpc EXCEPT ![c] = "inserted"]
    /\ UNCHANGED notSrv
    /\ UNCHANGED <<lsnVars, conVars, target, snkVars, tskVars, cntVars>>

\* clients.get(&client_id).unwrap(): the record now under the key, or a
\* panic when the key is gone.
GetRecord(c) ==
    /\ hpc[c] = "inserted"
    /\ IF clients[client_id[c]] = NoConn
       THEN /\ hpc' = [hpc EXCEPT ![c] = "panicked"]
            /\ UNCHANGED target
       ELSE /\ hpc' = [hpc EXCEPT ![c] = "got"]
            /\ target' = [target EXCEPT ![c] = clients[client_id[c]]]
    /\ UNCHANGED notSrv
    /\ UNCHANGED <<lsnVars, conVars, client_id, regVars, snkVars, tskVars,
                   cntVars>>

\* A lock() that returns while the mutex is held.
LockHeld(r) == TRUE

\* Mutex::lock().await returns once nobody holds the mutex of r's sink.
TryLock(r) == lock[r] = Unlocked

\* .write_msg.lock().await: the handler acquires the record's mutex.
LockForAccept(c) ==
    /\ hpc[c] = "got"
    /\ TryLock(target[c])
    /\ lock' = [lock EXCEPT ![target[c]] = Handler(c)]
    /\ hpc' = [hpc EXCEPT ![c] = "locking"]
    /\ UNCHANGED notSrv
    /\ UNCHANGED <<lsnVars, conVars, client_id, target, regVars, write_msg,
                   tskVars, cntVars>>

\* .send(Bytes::from(response)) under the lock, then break client_id.
SendAcceptJoin(c) ==
    /\ hpc[c] = "locking"
    /\ lock[target[c]] = Handler(c)
    /\ write_msg' = [write_msg EXCEPT ![target[c]] =
                        Append(@, Frame(AcceptJoin, Handler(c),
                                        transport[target[c]]))]
    /\ lock' = [lock EXCEPT ![target[c]] = Unlocked]
    /\ hpc' = [hpc EXCEPT ![c] = "accepted"]
    /\ UNCHANGED notSrv
    /\ UNCHANGED <<lsnVars, conVars, client_id, target, regVars, tskVars,
                   cntVars>>

\* .send(..) of AcceptJoin fails: the error is logged, then break client_id.
SendAcceptJoinFailed(c) ==
    /\ hpc[c] = "locking"
    /\ lock[target[c]] = Handler(c)
    /\ Cardinality(faults) < MaxFaults
    /\ faults' = faults \cup {<<"reply", c, 0>>}
    /\ lock' = [lock EXCEPT ![target[c]] = Unlocked]
    /\ hpc' = [hpc EXCEPT ![c] = "accepted"]
    /\ UNCHANGED othVars
    /\ UNCHANGED <<lsnVars, conVars, client_id, target, regVars, write_msg,
                   tskVars, cntVars>>

\* A handler that reads the roster once its record is in the registry.
BeforeReply(c) == hpc[c] = "got"

\* The handler has left the loop by `break client_id`, which follows the
\* send of AcceptJoin.
AfterReply(c) == hpc[c] = "accepted"

\* After the join: the roster is read and its broadcast spawned.
JoinBroadcast(c) ==
    /\ AfterReply(c)
    /\ ntasks < MaxTasks
    /\ tasks' = Spawn(ClientListUpdate(Keys))
    /\ ntasks' = ntasks + 1
    /\ origin' = [origin EXCEPT ![ntasks + 1] = <<"join", c>>]
    /\ hpc' = [hpc EXCEPT ![c] = "joined"]
    /\ UNCHANGED notSrv
    /\ UNCHANGED <<lsnVars, conVars, client_id, target, regVars, snkVars,
                   cntVars>>

\* A sender that is the peer address alone.
SenderUnnamed(c) == ClientId("", haddr[c])

\* sender: client_id.clone()
Sender(c) == client_id[c]

\* A handler that awaits the broadcast it started.
AwaitingBroadcast == "casting"

\* Where the handler stands after tokio::task::spawn: the task runs on its
\* own and the handler is back at read_msg.next().
AfterSpawn == "joined"

\* Joined: SendMessage { message }.  A ReceiveMessage from this identity is
\* built and its broadcast spawned.
RecvSendMessage(c, m) ==
    /\ hpc[c] = "joined"
    /\ hpc' = [hpc EXCEPT ![c] = AfterSpawn]
    /\ nsends < MaxSends
    /\ nsends' = nsends + 1
    /\ ntasks < MaxTasks
    /\ tasks' = Spawn(ReceiveMessage(Sender(c), m, c, nsends + 1))
    /\ ntasks' = ntasks + 1
    /\ origin' = [origin EXCEPT ![ntasks + 1] = <<"send", c>>]
    /\ UNCHANGED notSrv
    /\ UNCHANGED <<lsnVars, conVars, client_id, target, regVars, snkVars,
                   nremoves, nexitcasts>>

\* Joined: a repeated JoinRequest is logged; a frame or payload that does
\* not decode is logged and the loop continues.
RecvSkipped(c) ==
    /\ hpc[c] = "joined"
    /\ UNCHANGED vars

\* A handler that takes the name of a repeated JoinRequest.
RejoinRenames(c, name) == ClientId(name, haddr[c])

\* The handler's client_id after the arm `JoinRequest { name: _ }`: the
\* name is dropped and the binding of the first loop stays.
RejoinIdentity(c, name) == client_id[c]

\* Joined: JoinRequest { name } again.  The step of RecvSkipped, with the
\* read kept in faults: the SendMessages read before it, and its name.
RecvRejoin(c, name) ==
    /\ hpc[c] = "joined"
    /\ Cardinality(faults) < MaxFaults
    /\ faults' = faults \cup {<<"rejoin", c, nsends, name>>}
    /\ client_id' = [client_id EXCEPT ![c] = RejoinIdentity(c, name)]
    /\ UNCHANGED othVars
    /\ UNCHANGED <<lsnVars, conVars, hpc, target, regVars, snkVars, tskVars,
                   cntVars>>

\* Joined: a frame that is bad (Some(Err)) or a payload that is no
\* ClientMessage is logged and the loop continues.  The step of RecvSkipped,
\* with the read kept in faults.
RecvUndecodable(c) ==
    /\ hpc[c] = "joined"
    /\ Cardinality(faults) < MaxFaults
    /\ faults' = faults \cup {<<"read", c, nsends>>}
    /\ UNCHANGED othVars
    /\ UNCHANGED <<lsnVars, conVars, hdlVars, regVars, snkVars, tskVars,
                   cntVars>>

\* A removal that leaves the registry as it is.
RemoveNothing(id) == clients

\* self.clients.pin().remove(&client_id)
Remove(id) == [clients EXCEPT ![id] = NoConn]

\* Joined: the stream ended.  The loop breaks and the identity is removed.
RecvClose(c) ==
    /\ hpc[c] = "joined"
    /\ clients' = Remove(client_id[c])
    /\ regver' = regver + 1
    /\ liveids' = liveids \ {client_id[c]}
    /\ nremoves' = [nremoves EXCEPT ![c] = @ + 1]
    /\ hpc' = [hpc EXCEPT ![c] = "removed"]
    /\ UNCHANGED notSrv
    /\ UNCHANGED <<lsnVars, conVars, client_id, target, ninserts, snkVars,
                   tskVars, nsends, nexitcasts>>

\* On exit: the roster is read and its broadcast spawned; the handler ends.
ExitBroadcast(c) ==
    /\ hpc[c] = "removed"
    /\ ntasks < MaxTasks
    /\ tasks' = Spawn(ClientListUpdate(Keys))
    /\ ntasks' = ntasks + 1
    /\ origin' = [origin EXCEPT ![ntasks + 1] = <<"exit", c>>]
    /\ nexitcasts' = [nexitcasts EXCEPT ![c] = @ + 1]
    /\ hpc' = [hpc EXCEPT ![c] = "done"]
    /\ UNCHANGED notSrv
    /\ UNCHANGED <<lsnVars, conVars, client_id, target, regVars, snkVars,
                   nsends, nremoves>>

(***************************************************************************)
(* Server: broadcast (Server::broadcast).                                  *)
(***************************************************************************)
\* The registry's values are copied into client_vec.
Snapshot == Values

\* The broadcast starts: one send future per record of the snapshot.
TaskSnapshot(t) ==
    /\ tasks[t].pc = "spawned"
    /\ LET s == Snapshot IN
        tasks' = [tasks EXCEPT ![t].rcpts = s, ![t].todo = s,
                               ![t].pc = IF s = {} THEN "done" ELSE "running"]
    /\ UNCHANGED notSrv
    /\ UNCHANGED <<lsnVars, conVars, hdlVars, regVars, snkVars, ntasks,
                   origin,
                   cntVars>>

\* A broadcast that sends to one recipient after the other: the next send
\* starts when the one before it has completed.
SendableInTurn(t) ==
    IF \E q \in Conns : lock[q] = Task(t) THEN {}
    ELSE {r \in tasks[t].todo : \A q \in tasks[t].todo : r <= q}

\* The send futures of broadcast t that have not started: FuturesUnordered
\* polls every one of them.
Sendable(t) == tasks[t].todo

\* client.write_msg.lock().await: a send future acquires its recipient's mutex.
TaskLock(t, r) ==
    /\ tasks[t].pc = "running"
    /\ r \in Sendable(t)
    /\ TryLock(r)
    /\ tasks' = [tasks EXCEPT ![t].todo = @ \ {r}]
    /\ lock' = [lock EXCEPT ![r] = Task(t)]
    /\ UNCHANGED notSrv
    /\ UNCHANGED <<lsnVars, conVars, hdlVars, regVars, write_msg, ntasks,
                   origin,
                   cntVars>>

\* .send(message) under the lock; the broadcast returns after its last send.
TaskSend(t, r) ==
    /\ tasks[t].pc = "running"
    /\ lock[r] = Task(t)
    /\ write_msg' = [write_msg EXCEPT ![r] =
                        Append(@, Frame(tasks[t].msg, Task(t), transport[r]))]
    /\ lock' = [lock EXCEPT ![r] = Unlocked]
    /\ tasks' = [tasks EXCEPT ![t].pc =
                    IF /\ tasks[t].todo = {}
                       /\ \A q \in Conns \ {r} : lock[q] # Task(t)
                    THEN "done" ELSE "running"]
    /\ UNCHANGED notSrv
    /\ UNCHANGED <<lsnVars, conVars, hdlVars, regVars, ntasks, origin,
                   cntVars>>

\* A broadcast that returns the error of a send.
ReturnOnFailedSend(t, r) == "done"

\* Where broadcast t stands after its send to r failed: `if let Err` logs,
\* the future yields () and the while loop goes on until none is left.
AfterFailedSend(t, r) ==
    IF /\ tasks[t].todo = {}
       /\ \A q \in Conns \ {r} : lock[q] # Task(t)
    THEN "done" ELSE "running"

\* .send(message) fails: the error is logged and the send future ends.
TaskSendFailed(t, r) ==
    /\ tasks[t].pc = "running"
    /\ lock[r] = Task(t)
    /\ Cardinality(faults) < MaxFaults
    /\ faults' = faults \cup {<<"send", t, r>>}
    /\ lock' = [lock EXCEPT ![r] = Unlocked]
    /\ tasks' = [tasks EXCEPT ![t].pc = AfterFailedSend(t, r)]
    /\ UNCHANGED othVars
    /\ UNCHANGED <<lsnVars, conVars, hdlVars, regVars, write_msg, ntasks,
                   origin,
                   cntVars>>

(***************************************************************************)
(* Server: the specification.                                              *)
(***************************************************************************)
\* No connection was accepted yet.
NoConnections ==
    /\ futures = [l \in Listeners |-> {}]
    /\ nconns = 0
    /\ hpc = [c \in Conns |-> "idle"]
    /\ hlistener = [c \in Conns |-> 0]
    /\ haddr = [c \in Conns |-> 0]
    /\ client_id = [c \in Conns |-> NoId]
    /\ target = [c \in Conns |-> NoConn]
    /\ transport = [c \in Conns |-> "None"]
    /\ clients = [k \in Ids |-> NoConn]
    /\ lock = [c \in Conns |-> Unlocked]
    /\ write_msg = [c \in Conns |-> <<>>]
    /\ tasks = [t \in Tasks |-> NoTask]
    /\ ntasks = 0
    /\ origin = [t \in Tasks |-> NoOrigin]
    /\ nsends = 0
    /\ regver = 0
    /\ ninserts = 0
    /\ liveids = {}
    /\ nremoves = [c \in Conns |-> 0]
    /\ nexitcasts = [c \in Conns |-> 0]
    /\ faults = {}

\* run_loop has bound the one listen address of the settings and spawned
\* its listener; it waits at futures.next().
InitServerVars ==
    /\ max_concurrency \in 0..MaxK
    /\ listen_addresses = 1
    /\ rpc = "wait"
    /\ nbound = 1
    /\ lpc = [l \in Listeners |-> IF l = 1 THEN "accept" ELSE "none"]
    /\ NoConnections

StepServer ==
    \/ \E l \in Listeners, a \in Addrs : Accept(l, a)
    \/ \E l \in Listeners : LimitPassed(l)
    \/ \E l \in Listeners, c \in Conns : Reap(l, c)
    \/ \E l \in Listeners : ReapNone(l)
    \/ \E c \in Conns : RecvAbort(c)
    \/ \E c \in Conns : RecvIgnored(c)
    \/ \E c \in Conns, name \in Names : RecvJoinRequest(c, name)
    \/ \E c \in Conns : GetRecord(c)
    \/ \E c \in Conns : LockForAccept(c)
    \/ \E c \in Conns : SendAcceptJoin(c)
    \/ \E c \in Conns : JoinBroadcast(c)
    \/ \E c \in Conns, m \in Msgs : RecvSendMessage(c, m)
    \/ \E c \in Conns : RecvSkipped(c)
    \/ \E c \in Conns : RecvClose(c)
    \/ \E c \in Conns : ExitBroadcast(c)
    \/ \E t \in Tasks : TaskSnapshot(t)
    \/ \E t \in Tasks, r \in Conns : TaskLock(t, r)
    \/ \E t \in Tasks, r \in Conns : TaskSend(t, r)


(***************************************************************************)
(* Bytes.                                                                  *)
(***************************************************************************)
Byte == 0..255

\* The 4-byte big-endian and little-endian forms of n, 0 <= n < 2^31.
BE32(n) == <<(n \div 16777216) % 256, (n \div 65536) % 256,
             (n \div 256) % 256, n % 256>>
LE32(n) == <<n % 256, (n \div 256) % 256, (n \div 65536) % 256,
             (n \div 16777216) % 256>>

RECURSIVE Concat(_)
Concat(ss) ==
    IF Len(ss) = 0 THEN <<>>
    ELSE IF Len(ss) = 1 THEN ss[1]
    ELSE LET h == Len(ss) \div 2 IN
         Concat(SubSeq(ss, 1, h)) \o Concat(SubSeq(ss, h + 1, Len(ss)))

\* Results: Ok(x) or Err(kind).
Ok(x) == [ok |-> TRUE, val |-> x, err |-> ""]
Err(kind) == [ok |-> FALSE, val |-> <<>>, err |-> kind]
\* An error that carries a value: a payload, or the error it wraps.
ErrWith(kind, payload) == [ok |-> FALSE, val |-> payload, err |-> kind]

(***************************************************************************)
(* CBOR as serde_cbor writes and reads it (ser::to_vec, from_slice).       *)
(* A data item is [t, n, s, a]: t its kind, n an unsigned integer, s the   *)
(* bytes of a text or byte string, a the items of an array or the          *)
(* key, value, key, value ... items of a map.                              *)
(***************************************************************************)
U(n) == [t |-> "uint", n |-> n, s |-> <<>>, a |-> <<>>]
B(s) == [t |-> "bytes", n |-> 0, s |-> s, a |-> <<>>]
T(s) == [t |-> "text", n |-> 0, s |-> s, a |-> <<>>]
A(a) == [t |-> "array", n |-> 0, s |-> <<>>, a |-> a]
M(a) == [t |-> "map", n |-> 0, s |-> <<>>, a |-> a]
Null == [t |-> "null", n |-> 0, s |-> <<>>, a |-> <<>>]

\* The initial byte and argument of a data item: major type and value.
CborHead(major, n) ==
    IF n < 24 THEN <<major * 32 + n>>
    ELSE IF n < 256 THEN <<major * 32 + 24, n>>
    ELSE IF n < 65536 THEN <<major * 32 + 25, n \div 256, n % 256>>
    ELSE <<major * 32 + 26>> \o BE32(n)

RECURSIVE CborEnc(_)
CborEnc(v) ==
    CASE v.t = "uint" -> CborHead(0, v.n)
      [] v.t = "bytes" -> CborHead(2, Len(v.s)) \o v.s
      [] v.t = "text" -> CborHead(3, Len(v.s)) \o v.s
      [] v.t = "array" ->
            CborHead(4, Len(v.a)) \o
            Concat([i \in 1..Len(v.a) |-> CborEnc(v.a[i])])
      [] v.t = "map" ->
            CborHead(5, Len(v.a) \div 2) \o
            Concat([i \in 1..Len(v.a) |-> CborEnc(v.a[i])])
      [] v.t = "null" -> <<246>>

\* The argument of the head at b[i]: [ok, n, next].  An 8-byte argument, a
\* reserved value or an indefinite length is refused (none is written by
\* the encoder above).
CborArg(b, i) ==
    LET ai == b[i] % 32 IN
    IF ai < 24 THEN [ok |-> TRUE, n |-> ai, next |-> i + 1]
    ELSE IF ai = 24 /\ i + 1 <= Len(b)
        THEN [ok |-> TRUE, n |-> b[i + 1], next |-> i + 2]
    ELSE IF ai = 25 /\ i + 2 <= Len(b)
        THEN [ok |-> TRUE, n |-> b[i + 1] * 256 + b[i + 2], next |-> i + 3]
    ELSE IF ai = 26 /\ i + 4 <= Len(b) /\ b[i + 1] < 128
        THEN [ok |-> TRUE,
              n |-> b[i + 1] * 16777216 + b[i + 2] * 65536
                    + b[i + 3] * 256 + b[i + 4],
              next |-> i + 5]
    ELSE [ok |-> FALSE, n |-> 0, next |-> i]

NoItem == [ok |-> FALSE, v |-> Null, next |-> 0]

\* The data item that starts at b[i]: [ok, v, next].
RECURSIVE CborDec(_, _)
RECURSIVE CborDecItems(_, _, _)
CborDecItems(b, i, count) ==
    IF count = 0 THEN [ok |-> TRUE, vs |-> <<>>, next |-> i]
    ELSE IF count = 1 THEN
         LET x == CborDec(b, i) IN
         IF ~x.ok THEN [ok |-> FALSE, vs |-> <<>>, next |-> i]
         ELSE [ok |-> TRUE, vs |-> <<x.v>>, next |-> x.next]
    ELSE LET first == CborDecItems(b, i, count \div 2) IN
         IF ~first.ok THEN [ok |-> FALSE, vs |-> <<>>, next |-> i]
         ELSE LET rest == CborDecItems(b, first.next,
                                       count - count \div 2) IN
              IF ~rest.ok THEN [ok |-> FALSE, vs |-> <<>>, next |-> i]
              ELSE [ok |-> TRUE, vs |-> first.vs \o rest.vs,
                    next |-> rest.next]

CborDec(b, i) ==
    IF i > Len(b) THEN NoItem
    ELSE LET major == b[i] \div 32
             arg == CborArg(b, i) IN
    IF b[i] = 246 THEN [ok |-> TRUE, v |-> Null, next |-> i + 1]
    ELSE IF ~arg.ok THEN NoItem
    ELSE IF major = 0 THEN [ok |-> TRUE, v |-> U(arg.n), next |-> arg.next]
    ELSE IF major \in {2, 3} THEN
        IF arg.next + arg.n - 1 > Len(b) THEN NoItem
        ELSE LET str == SubSeq(b, arg.next, arg.next + arg.n - 1) IN
             [ok |-> TRUE, v |-> IF major = 2 THEN B(str) ELSE T(str),
              next |-> arg.next + arg.n]
    ELSE IF major \in {4, 5} THEN
        LET count == IF major = 4 THEN arg.n ELSE 2 * arg.n IN
        IF count > Len(b) THEN NoItem
        ELSE LET items == CborDecItems(b, arg.next, count) IN
             IF ~items.ok THEN NoItem
             ELSE [ok |-> TRUE,
                   v |-> IF major = 4 THEN A(items.vs) ELSE M(items.vs),
                   next |-> items.next]
    ELSE NoItem

\* serde_cbor::from_slice up to the typed visit: one data item and no bytes
\* after it.
CborParse(b) ==
    LET x == CborDec(b, 1) IN
    IF x.ok /\ x.next = Len(b) + 1 THEN Ok(x.v) ELSE Err("Deserialize")

\* The value under a field name in a map's items: Ok(value), or Err when
\* the field is missing or appears twice.
MapField(m, name) ==
    LET hits == {i \in 1..(Len(m.a) \div 2) : m.a[2 * i - 1] = T(name)} IN
    IF Cardinality(hits) = 1
    THEN Ok(m.a[2 * (CHOOSE i \in hits : TRUE)])
    ELSE Err("Deserialize")

\* A text is a String when it is UTF-8: here, ASCII.
IsString(v) == v.t = "text" /\ \A i \in 1..Len(v.s) : v.s[i] < 128

(***************************************************************************)
(* The record of the codec tests, TestEnum { string, number, void }, as    *)
(* serde derives its Serialize and Deserialize.                            *)
(***************************************************************************)
\* "string", "number", "void"
FieldString == <<115, 116, 114, 105, 110, 103>>
FieldNumber == <<110, 117, 109, 98, 101, 114>>
FieldVoid == <<118, 111, 105, 100>>

TestEnum(string, number) == [string |-> string, number |-> number,
                             void |-> "()"]

TestEnumToValue(r) ==
    M(<<T(FieldString), T(r.string), T(FieldNumber), U(r.number),
        T(FieldVoid), Null>>)

TestEnumFromValue(v) ==
    IF v.t = "map" THEN
        LET fs == MapField(v, FieldString)
            fn == MapField(v, FieldNumber)
            fv == MapField(v, FieldVoid) IN
        IF /\ fs.ok /\ fn.ok /\ fv.ok
           /\ IsString(fs.val) /\ fn.val.t = "uint" /\ fv.val.t = "null"
        THEN Ok(TestEnum(fs.val.s, fn.val.n))
        ELSE Err("Deserialize")
    ELSE IF v.t = "array" /\ Len(v.a) = 3 THEN
        IF IsString(v.a[1]) /\ v.a[2].t = "uint" /\ v.a[3].t = "null"
        THEN Ok(TestEnum(v.a[1].s, v.a[2].n))
        ELSE Err("Deserialize")
    ELSE Err("Deserialize")

\* serde_cbor::ser::to_vec(&item)
to_vec(r) == CborEnc(TestEnumToValue(r))

\* serde_cbor::from_slice(&bytes)
from_slice(b) ==
    LET x == CborParse(b) IN
    IF x.ok THEN TestEnumFromValue(x.val) ELSE x

(***************************************************************************)
(* LZ4 block compression as the lz4 crate calls it:                        *)
(* block::compress(src, DEFAULT, prepend_size = true) and                  *)
(* block::decompress(src, None).                                           *)
(***************************************************************************)
\* A literal or match length above 14: bytes of 255, then the remainder.
RECURSIVE Lz4LenBytes(_)
Lz4LenBytes(n) == IF n >= 255 THEN <<255>> \o Lz4LenBytes(n - 255) ELSE <<n>>

\* The block the compressor writes for input in which no four bytes occur
\* twice: one sequence of literals, with no match.
Lz4Block(src) ==
    LET l == Len(src) IN
    IF l < 15 THEN <<l * 16>> \o src
    ELSE <<240>> \o Lz4LenBytes(l - 15) \o src

\* compress(.., prepend_size = false): the block alone.
compress_without_size(src) == Lz4Block(src)

\* compress(.., prepend_size = true): the uncompressed size, little-endian,
\* then the block.
compress(src) == LE32(Len(src)) \o Lz4Block(src)

\* A length that continues past its nibble: [ok, n, next].
RECURSIVE Lz4ReadLen(_, _, _)
Lz4ReadLen(src, ip, acc) ==
    IF ip > Len(src) THEN [ok |-> FALSE, n |-> 0, next |-> ip]
    ELSE IF src[ip] = 255 THEN Lz4ReadLen(src, ip + 1, acc + 255)
    ELSE [ok |-> TRUE, n |-> acc + src[ip], next |-> ip + 1]

\* out followed by mlen bytes copied from offset bytes back (the copy may
\* overlap what it writes).
RECURSIVE Lz4CopyMatch(_, _, _)
Lz4CopyMatch(out, offset, mlen) ==
    IF mlen = 0 THEN out
    ELSE Lz4CopyMatch(Append(out, out[Len(out) - offset + 1]), offset,
                      mlen - 1)

\* LZ4_decompress_safe from src[ip] on, with out decoded so far and room
\* for cap bytes: Ok(bytes) or Err.
RECURSIVE Lz4Sequences(_, _, _, _)
Lz4Sequences(src, ip, out, cap) ==
    IF ip > Len(src) THEN Err("Decompress")
    ELSE
    LET token == src[ip]
        lit == IF token \div 16 = 15
               THEN Lz4ReadLen(src, ip + 1, 15)
               ELSE [ok |-> TRUE, n |-> token \div 16, next |-> ip + 1]
    IN
    IF ~lit.ok THEN Err("Decompress")
    ELSE
    LET lend == lit.next + lit.n      \* first input position after the literals
        olen == Len(out) + lit.n
    IN
    IF olen > cap - 12 \/ lend > Len(src) + 1 - 8
    THEN \* the last sequence: literals only, to the end of the input
         IF lend = Len(src) + 1 /\ olen <= cap
         THEN Ok(out \o SubSeq(src, lit.next, lend - 1))
         ELSE Err("Decompress")
    ELSE
    LET out1 == out \o SubSeq(src, lit.next, lend - 1)
        offset == src[lend] + 256 * src[lend + 1]
        ml == IF token % 16 = 15
              THEN Lz4ReadLen(src, lend + 2, 15)
              ELSE [ok |-> TRUE, n |-> token % 16, next |-> lend + 2]
    IN
    IF ~ml.ok \/ offset = 0 \/ offset > Len(out1) THEN Err("Decompress")
    ELSE IF Len(out1) + ml.n + 4 > cap - 5 THEN Err("Decompress")
    ELSE Lz4Sequences(src, ml.next, Lz4CopyMatch(out1, offset, ml.n + 4), cap)

\* The size the input may claim: LZ4_compressBound refuses more.
Lz4MaxInputSize == 2113929216

\* decompress(src, None): the first four bytes give the size of the output.
decompress(src) ==
    IF Len(src) < 4 THEN Err("Decompress")
    ELSE IF src[4] >= 128 THEN Err("Decompress")
    ELSE
    LET size == src[1] + 256 * src[2] + 65536 * src[3] + 16777216 * src[4]
        block == SubSeq(src, 5, Len(src)) IN
    IF size > Lz4MaxInputSize THEN Err("Decompress")
    ELSE IF block = <<>> THEN Err("Decompress")
    ELSE IF size = 0
        THEN IF block = <<0>> THEN Ok(<<>>) ELSE Err("Decompress")
    ELSE Lz4Sequences(block, 1, <<>>, size)

(***************************************************************************)
(* Framing: tokio_util's LengthDelimitedCodec as Framed::new builds it.    *)
(***************************************************************************)
\* max_frame_length of LengthDelimitedCodec::new(): 8 MiB.
MaxFrameLength == 8388608

\* An encoder that writes the payload without its length.
FrameUnprefixed(payload) ==
    IF Len(payload) > MaxFrameLength THEN Err("Frame") ELSE Ok(payload)

\* Encoder: a 4-byte big-endian length, then the payload.
FrameEncode(payload) ==
    IF Len(payload) > MaxFrameLength THEN Err("Frame")
    ELSE Ok(BE32(Len(payload)) \o payload)

\* Decoder, on the bytes received so far: the next frame and the bytes left.
\* state is "frame", "pending" (more bytes are needed) or "error".
FrameDecode(wire) ==
    IF Len(wire) < 4
    THEN [state |-> "pending", frame |-> <<>>, rest |-> wire]
    ELSE IF wire[1] > 0
    THEN [state |-> "error", frame |-> <<>>, rest |-> wire]
    ELSE
    LET n == wire[2] * 65536 + wire[3] * 256 + wire[4] IN
    IF n > MaxFrameLength
    THEN [state |-> "error", frame |-> <<>>, rest |-> wire]
    ELSE IF Len(wire) < 4 + n
    THEN [state |-> "pending", frame |-> <<>>, rest |-> wire]
    ELSE [state |-> "frame", frame |-> SubSeq(wire, 5, 4 + n),
          rest |-> SubSeq(wire, 5 + n, Len(wire))]

(***************************************************************************)
(* CborStream and CompressedCborStream (common/src/codec.rs).              *)
(***************************************************************************)
\* Records sent in one run, on both streams together.
MaxRecords == 2
\* The longest string of a record.
MaxStrLen == 1

StreamKinds == {"CborStream", "CompressedCborStream"}

\* 'B'
Chars == {66}
Strings == UNION {[1..n -> Chars] : n \in 0..MaxStrLen}
\* One number for each width of a CBOR argument.
Numbers == {7, 69, 300, 70000}
Records == {TestEnum(s, n) : s \in Strings, n \in Numbers}

\* CborStream::start_send: serialize and frame.
CborStartSend(item) == FrameEncode(to_vec(item))

\* CompressedCborStream::start_send: serialize, compress and frame.
CompressedStartSend(item) == FrameEncode(compress(to_vec(item)))

\* CborStream::poll_next on a received frame.
CborPollNext(bytes) == from_slice(bytes)

\* The ErrorKind of the io::Error decompress(src, None) returns: InvalidInput
\* for a size prefix it refuses, InvalidData for a block that does not
\* decode.
Lz4ErrorKind(src) ==
    IF Len(src) < 4 THEN "InvalidInput"
    ELSE IF src[4] >= 128 THEN "InvalidInput"
    ELSE IF src[1] + 256 * src[2] + 65536 * src[3] + 16777216 * src[4]
                > Lz4MaxInputSize
    THEN "InvalidInput"
    ELSE "InvalidData"

\* A poll_next that turns every failure after the frame into
\* io::Error::other of a deserialization error.
CompressedPollNextFlat(bytes) ==
    LET d == decompress(bytes) IN
    IF d.ok THEN from_slice(d.val) ELSE Err("Deserialize")

\* CompressedCborStream::poll_next on a received frame.  The io::Error of
\* decompress is returned as it is.
CompressedPollNext(bytes) ==
    LET d == decompress(bytes) IN
    IF d.ok THEN from_slice(d.val)
    ELSE ErrWith(d.err, <<Lz4ErrorKind(bytes)>>)

StartSend(kind, item) ==
    IF kind = "CborStream" THEN CborStartSend(item)
    ELSE CompressedStartSend(item)

PollNext(kind, bytes) ==
    IF kind = "CborStream" THEN CborPollNext(bytes)
    ELSE CompressedPollNext(bytes)

\* The io::Error an error item of a stream is: its ErrorKind and the type
\* of the error it holds.
IoError(item) ==
    IF item.err = "Frame"
    THEN [kind |-> "InvalidData", inner |-> "LengthDelimitedCodecError"]
    ELSE IF item.err = "Truncated"
    THEN [kind |-> "Other", inner |-> "str"]
    ELSE IF item.err = "Decompress"
    THEN [kind |-> item.val[1], inner |-> "str"]
    ELSE [kind |-> "Other", inner |-> "serde_cbor::Error"]

\* The frames written malformed on a stream, and whether the sender has
\* ended it: after a truncated frame, and after a length prefix the reader
\* refuses (Framed ends the stream after the error).
FaultAt(kind, i) ==
    IF \E f \in cfault : f[1] = kind /\ f[2] = i
    THEN (CHOOSE f \in cfault : f[1] = kind /\ f[2] = i)[3]
    ELSE "none"

Ended(kind) ==
    \E f \in cfault : f[1] = kind /\ f[3] \in {"length", "truncated"}

\* send.send(item): the frame is written to the transport.
CodecSend(kind, item) ==
    /\ Len(csent["CborStream"]) + Len(csent["CompressedCborStream"])
            < MaxRecords
    /\ ~Ended(kind)
    /\ LET f == StartSend(kind, item) IN
        /\ f.ok
        /\ cwire' = [cwire EXCEPT ![kind] = @ \o f.val]
    /\ csent' = [csent EXCEPT ![kind] = Append(@, item)]
    /\ UNCHANGED <<crecv, cfault, notCod>>

\* Frames a sender writes malformed in one run.
MaxGarbled == 2

\* How a frame is malformed: a length prefix above max_frame_length, a
\* frame cut short by the end of the stream, a size prefix of three bytes,
\* an LZ4 block without its last byte, a CBOR value without its last byte.
Faults == {"length", "truncated", "lz4_prefix", "lz4_block", "cbor"}

ButLast(bytes) == SubSeq(bytes, 1, Len(bytes) - 1)

\* The payload of the frame: item's encoding, damaged where fault says.
GarbledPayload(kind, item, fault) ==
    LET cbor == IF fault = "cbor" THEN ButLast(to_vec(item)) ELSE to_vec(item)
        lz4 == compress(cbor) IN
    IF kind = "CborStream" THEN cbor
    ELSE IF fault = "lz4_prefix" THEN SubSeq(lz4, 1, 3)
    ELSE IF fault = "lz4_block" THEN ButLast(lz4)
    ELSE lz4

\* The bytes of the frame.
GarbledFrame(kind, item, fault) ==
    LET payload == GarbledPayload(kind, item, fault) IN
    IF fault = "length" THEN <<1, 0, 0, 0>> \o payload
    ELSE IF fault = "truncated" THEN ButLast(FrameEncode(payload).val)
    ELSE FrameEncode(payload).val

\* A peer that is not this code writes a malformed frame where item's frame
\* would be.
CodecSendGarbled(kind, item, fault) ==
    /\ Len(csent["CborStream"]) + Len(csent["CompressedCborStream"])
            < MaxRecords
    /\ ~Ended(kind)
    /\ Cardinality(cfault) < MaxGarbled
    /\ fault \in {"lz4_prefix", "lz4_block"} => kind = "CompressedCborStream"
    /\ cwire' = [cwire EXCEPT ![kind] = @ \o GarbledFrame(kind, item, fault)]
    /\ csent' = [csent EXCEPT ![kind] = Append(@, item)]
    /\ cfault' = cfault \cup {<<kind, Len(csent[kind]) + 1, fault>>}
    /\ UNCHANGED <<crecv, notCod>>

\* What the Framed stream yields on the bytes received: a frame, a decoder
\* error, or at the end of the stream with bytes left over the error of
\* decode_eof.  No item while more bytes may come.
FramedNext(kind) ==
    LET d == FrameDecode(cwire[kind]) IN
    IF d.state = "frame"
    THEN [some |-> TRUE, item |-> PollNext(kind, d.frame), rest |-> d.rest]
    ELSE IF d.state = "error"
    THEN [some |-> TRUE, item |-> Err("Frame"), rest |-> <<>>]
    ELSE IF Ended(kind) /\ cwire[kind] # <<>>
    THEN [some |-> TRUE, item |-> Err("Truncated"), rest |-> <<>>]
    ELSE [some |-> FALSE, item |-> Err("Pending"), rest |-> cwire[kind]]

\* recv.next(): the next frame of the transport is read and decoded.
CodecRecv(kind) ==
    LET n == FramedNext(kind) IN
    /\ n.some
    /\ crecv' = [crecv EXCEPT ![kind] = Append(@, n.item)]
    /\ cwire' = [cwire EXCEPT ![kind] = n.rest]
    /\ UNCHANGED <<csent, cfault, notCod>>

InitCodec ==
    /\ cwire = [k \in StreamKinds |-> <<>>]
    /\ csent = [k \in StreamKinds |-> <<>>]
    /\ crecv = [k \in StreamKinds |-> <<>>]
    /\ cfault = {}

NextCodec ==
    \/ \E k \in StreamKinds, item \in Records : CodecSend(k, item)
    \/ \E k \in StreamKinds : CodecRecv(k)

(***************************************************************************)
(* The secure channel's envelope, Message (common/src/secure.rs), as serde *)
(* derives its Serialize and Deserialize: a map from the variant's name to *)
(* a map of its fields.                                                    *)
(***************************************************************************)
\* "Handshake", "Encrypted", "public_key", "data", "nonce"
NameHandshake == <<72, 97, 110, 100, 115, 104, 97, 107, 101>>
NameEncrypted == <<69, 110, 99, 114, 121, 112, 116, 101, 100>>
FieldPublicKey == <<112, 117, 98, 108, 105, 99, 95, 107, 101, 121>>
FieldData == <<100, 97, 116, 97>>
FieldNonce == <<110, 111, 110, 99, 101>>

\* Bytes of a nonce ([u8; 12]) and of an AES-GCM tag.
NonceLen == 12
TagLen == 16

Handshake(public_key) ==
    [kind |-> "Handshake", public_key |-> public_key, data |-> <<>>,
     nonce |-> <<>>]
Encrypted(data, nonce) ==
    [kind |-> "Encrypted", public_key |-> 0, data |-> data, nonce |-> nonce]

UintArray(bytes) == A([i \in 1..Len(bytes) |-> U(bytes[i])])

MessageToValue(m) ==
    IF m.kind = "Handshake"
    THEN M(<<T(NameHandshake), M(<<T(FieldPublicKey), B(<<m.public_key>>)>>)>>)
    ELSE M(<<T(NameEncrypted),
             M(<<T(FieldData), UintArray(m.data),
                 T(FieldNonce), UintArray(m.nonce)>>)>>)

\* An array of bytes: every item an unsigned integer below 256.
IsByteArray(v) ==
    v.t = "array" /\ \A i \in 1..Len(v.a) : v.a[i].t = "uint" /\ v.a[i].n < 256

ByteArray(v) == [i \in 1..Len(v.a) |-> v.a[i].n]

\* A public key is one element of the group other than the identity.
IsPublicKey(v) == v.t = "bytes" /\ Len(v.s) = 1 /\ v.s[1] \in 2..22

MessageFromValue(v) ==
    IF ~(v.t = "map" /\ Len(v.a) = 2 /\ v.a[2].t = "map")
    THEN Err("Deserialize")
    ELSE IF v.a[1] = T(NameHandshake) THEN
        LET pk == MapField(v.a[2], FieldPublicKey) IN
        IF pk.ok /\ IsPublicKey(pk.val) THEN Ok(Handshake(pk.val.s[1]))
        ELSE Err("Deserialize")
    ELSE IF v.a[1] = T(NameEncrypted) THEN
        LET d == MapField(v.a[2], FieldData)
            n == MapField(v.a[2], FieldNonce) IN
        IF /\ d.ok /\ n.ok /\ IsByteArray(d.val) /\ IsByteArray(n.val)
           /\ Len(n.val.a) = NonceLen
        THEN Ok(Encrypted(ByteArray(d.val), ByteArray(n.val)))
        ELSE Err("Deserialize")
    ELSE Err("Deserialize")

\* CompressedCborStream<S, Message>: start_send and poll_next.
MessageStartSend(m) == FrameEncode(compress(CborEnc(MessageToValue(m))))

MessagePollNext(bytes) ==
    LET d == decompress(bytes) IN
    IF ~d.ok THEN d
    ELSE LET x == CborParse(d.val) IN
         IF x.ok THEN MessageFromValue(x.val) ELSE x

(***************************************************************************)
(* The primitives of the secure channel.  The key agreement is             *)
(* Diffie-Hellman in the multiplicative group modulo 23 with generator 5   *)
(* (in place of P-521); the key derivation and the cipher are small        *)
(* functions with the shape of HKDF and AES-GCM: the cipher's output is    *)
(* the masked plaintext followed by a tag over key, nonce and ciphertext.  *)
(***************************************************************************)
\* The largest EphemeralSecret drawn.
MaxSecret == 2
Secrets == 1..MaxSecret

\* secret.public_key()
public_key(secret) == (5 ^ secret) % 23

\* An agreement that leaves the peer's key out.
OwnKeyAgreement(secret, peer_key) == public_key(secret)

\* secret.diffie_hellman(&public_key)
diffie_hellman(secret, peer_key) == (peer_key ^ secret) % 23

\* Hkdf::<Sha512>::new(None, shared).expand(b"handshake context", ..)
hkdf(shared) == (29 * shared + 7) % 251

\* The sum of (2i + 1) * bytes[i] for i in lo..hi, modulo 256.
RECURSIVE WeightedSum(_, _, _)
WeightedSum(bytes, lo, hi) ==
    IF lo > hi THEN 0
    ELSE IF lo = hi THEN ((2 * lo + 1) * bytes[lo]) % 256
    ELSE LET mid == (lo + hi) \div 2 IN
         (WeightedSum(bytes, lo, mid) + WeightedSum(bytes, mid + 1, hi)) % 256

Digest(bytes) == WeightedSum(bytes, 1, Len(bytes))

KeyStream(key, nonce, i) == (key + 3 * Digest(nonce) + 7 * i) % 256

Mac(key, nonce, ct) ==
    (5 * key + 11 * Digest(nonce) + Digest(ct) + Len(ct)) % 256

Tag(key, nonce, ct) == [j \in 1..TagLen |-> (Mac(key, nonce, ct) + j) % 256]

\* aes.encrypt(nonce, Payload { msg, aad: b"" })
encrypt(key, nonce, msg) ==
    LET ct == [i \in 1..Len(msg) |-> (msg[i] + KeyStream(key, nonce, i)) % 256]
    IN ct \o Tag(key, nonce, ct)

\* A decryption that does not verify the tag.
decrypt_unverified(key, nonce, data) ==
    IF Len(data) < TagLen THEN Err("Aead")
    ELSE Ok([i \in 1..Len(data) - TagLen |->
                (data[i] + 256 - KeyStream(key, nonce, i)) % 256])

\* aes.decrypt(nonce, Payload { msg, aad: b"" })
decrypt(key, nonce, data) ==
    IF Len(data) < TagLen THEN Err("Aead")
    ELSE
    LET ct == SubSeq(data, 1, Len(data) - TagLen)
        tag == SubSeq(data, Len(data) - TagLen + 1, Len(data)) IN
    IF tag # Tag(key, nonce, ct) THEN Err("Aead")
    ELSE Ok([i \in 1..Len(ct) |->
                (ct[i] + 256 - KeyStream(key, nonce, i)) % 256])

(***************************************************************************)
(* SecureStream (common/src/secure.rs).                                    *)
(***************************************************************************)
\* Items sent on the connection in one run, by both peers together.
MaxSecureSends == 2

Peers == {"client", "server"}
Other(e) == IF e = "client" THEN "server" ELSE "client"

\* The nonces the random generator may give.
Nonces == {[i \in 1..NonceLen |-> (n + i) % 256] : n \in {0, 100}}

\* The items of the handshake test, TestStruct { string, number, void }.
SecureItems == {TestEnum(<<66>>, 69), TestEnum(<<>>, 300)}

NoKey == 0 - 1

\* The public key sent in an Encrypted envelope.
EncryptedFirst(secret) ==
    Encrypted(<<public_key(secret)>>, [i \in 1..NonceLen |-> 0])

\* The envelope handshake() sends first.
HandshakeMessage(secret) == Handshake(public_key(secret))

\* inner.next(): what the inner stream of e yields next.  some is FALSE
\* while it is pending; item is the envelope read, an error, or EndOfStream
\* (None) once the peer's end is closed and every frame has been read.
EndOfStream == Err("EndOfStream")

InnerNext(e) ==
    LET d == FrameDecode(swire[Other(e)]) IN
    IF d.state = "frame"
    THEN [some |-> TRUE, item |-> MessagePollNext(d.frame), rest |-> d.rest]
    ELSE IF d.state = "error"
    THEN [some |-> TRUE, item |-> Err("Frame"), rest |-> <<>>]
    ELSE IF sclosed[Other(e)] /\ swire[Other(e)] = <<>>
    THEN [some |-> TRUE, item |-> EndOfStream, rest |-> <<>>]
    ELSE [some |-> FALSE, item |-> EndOfStream, rest |-> swire[Other(e)]]

\* The result of a handshake() that has not returned.
NoResult == Err("NoResult")

\* A handshake() that reads the peer's Handshake before it sends its own.
SendAfterPeer(e) == ~sclosed[e] /\ sout[Other(e)] # <<>>

\* inner.send(..) is the first await of handshake(): it needs the stream
\* open and nothing of the peer.
SendReady(e) == ~sclosed[e]

\* handshake(), first half: an ephemeral secret is drawn and its public key
\* sent as a Handshake.
HandshakeSend(e, secret) ==
    /\ spc[e] = "new"
    /\ SendReady(e)
    /\ LET m == HandshakeMessage(secret)
           f == MessageStartSend(m) IN
        /\ f.ok
        /\ swire' = [swire EXCEPT ![e] = @ \o f.val]
        /\ sout' = [sout EXCEPT ![e] = Append(@, m.kind)]
        /\ smade' = [smade EXCEPT ![e] = Append(@, m)]
    /\ ssecret' = [ssecret EXCEPT ![e] = secret]
    /\ spc' = [spc EXCEPT ![e] = "sent"]
    /\ UNCHANGED <<saes, ssent, srecv, sseen, shs, advVars, notSec>>

\* A handshake() that takes any envelope for the peer's Handshake.
HandshakeUnchecked(secret, r) ==
    IF ~r.ok THEN ErrWith("Io", r)
    ELSE Ok(hkdf(diffie_hellman(secret, r.val.public_key)))

\* What handshake() makes of the first envelope it reads: Ok(key), or Err.
HandshakeResult(secret, r) ==
    IF r.err = "EndOfStream"
    THEN ErrWith("Io", Err("ConnectionAborted"))
    ELSE IF ~r.ok THEN ErrWith("Io", r)
    ELSE IF r.val.kind = "Handshake"
    THEN Ok(hkdf(diffie_hellman(secret, r.val.public_key)))
    ELSE ErrWith("ExpectedHandshake", r.val)

\* handshake(), second half: the peer's envelope is read; on a Handshake the
\* key is derived and the stream returned.
HandshakeRecv(e) ==
    LET n == InnerNext(e) IN
    /\ spc[e] = "sent"
    /\ n.some
    /\ LET r == HandshakeResult(ssecret[e], n.item) IN
        /\ spc' = [spc EXCEPT ![e] = IF r.ok THEN "established" ELSE "failed"]
        /\ saes' = [saes EXCEPT ![e] = IF r.ok THEN r.val ELSE NoKey]
        /\ shs' = [shs EXCEPT ![e] = r]
    /\ sseen' = [sseen EXCEPT ![e] = Append(@, n.item)]
    /\ swire' = [swire EXCEPT ![Other(e)] = n.rest]
    /\ UNCHANGED <<ssecret, sout, ssent, srecv, smade, advVars, notSec>>

\* The envelope start_send builds for an item.
Seal(key, nonce, item) == Encrypted(encrypt(key, nonce, to_vec(item)), nonce)

\* SecureStream::start_send
SecureSend(e, item, nonce) ==
    /\ spc[e] = "established"
    /\ ~sclosed[e]
    /\ Len(ssent["client"]) + Len(ssent["server"]) < MaxSecureSends
    /\ LET m == Seal(saes[e], nonce, item)
           f == MessageStartSend(m) IN
        /\ f.ok
        /\ swire' = [swire EXCEPT ![e] = @ \o f.val]
        /\ sout' = [sout EXCEPT ![e] = Append(@, m.kind)]
        /\ smade' = [smade EXCEPT ![e] = Append(@, m)]
    /\ ssent' = [ssent EXCEPT ![e] = Append(@, item)]
    /\ UNCHANGED <<spc, ssecret, saes, srecv, sseen, shs, advVars, notSec>>

\* What poll_next makes of an envelope the inner stream yielded.
Open(key, r) ==
    IF ~r.ok THEN ErrWith("Io", r)
    ELSE IF r.val.kind = "Handshake"
    THEN ErrWith("Io", ErrWith("Other", ErrWith("AlreadyHandshaked", r.val)))
    ELSE LET p == decrypt(key, r.val.nonce, r.val.data) IN
         IF ~p.ok THEN ErrWith("FailedDecryption", r.val.data)
         ELSE LET item == from_slice(p.val) IN
              IF item.ok THEN item ELSE ErrWith("Io", ErrWith("InvalidData", item))

\* SecureStream::poll_next.  At the end of the stream it returns None and
\* yields no item.
SecureRecv(e) ==
    LET n == InnerNext(e) IN
    /\ spc[e] = "established"
    /\ n.some
    /\ n.item.err # "EndOfStream"
    /\ srecv' = [srecv EXCEPT ![e] = Append(@, Open(saes[e], n.item))]
    /\ sseen' = [sseen EXCEPT ![e] = Append(@, n.item)]
    /\ swire' = [swire EXCEPT ![Other(e)] = n.rest]
    /\ UNCHANGED <<spc, ssecret, saes, sout, ssent, smade, shs, advVars,
                   notSec>>

(***************************************************************************)
(* A network that alters the traffic: it flips one bit of an Encrypted     *)
(* envelope on its way, puts an envelope of its own on the wire, or closes *)
(* one end of the transport.                                               *)
(***************************************************************************)
\* Alterations in one run.
MaxAdv == 1

\* x with the bit of weight b flipped.
FlipBit(x, b) == IF (x \div b) % 2 = 1 THEN x - b ELSE x + b

\* The bits a flip may hit: in data the first and the last byte of the
\* ciphertext and the last byte of the tag, in nonce the first and the last
\* byte.
Flips ==
    {<<"data", "first", 1>>, <<"data", "body", 128>>, <<"data", "last", 1>>,
     <<"nonce", "first", 128>>, <<"nonce", "last", 1>>}

FlipAt(bytes, at) ==
    IF at = "first" THEN 1
    ELSE IF at = "body" THEN Len(bytes) - TagLen
    ELSE Len(bytes)

\* Envelope m with the bit of flip fl flipped.
Flipped(m, fl) ==
    IF fl[1] = "data"
    THEN Encrypted([m.data EXCEPT ![FlipAt(m.data, fl[2])] = FlipBit(@, fl[3])],
                   m.nonce)
    ELSE Encrypted(m.data,
                   [m.nonce EXCEPT ![FlipAt(m.nonce, fl[2])] = FlipBit(@, fl[3])])

\* poll_next on a frame that reaches e with one bit of its envelope flipped.
SecureRecvFlipped(e, fl) ==
    LET n == InnerNext(e) IN
    /\ spc[e] = "established"
    /\ nadv < MaxAdv
    /\ n.some /\ n.item.ok /\ n.item.val.kind = "Encrypted"
    /\ Len(n.item.val.data) > TagLen
    /\ LET r == MessagePollNext(compress(CborEnc(MessageToValue(
                    Flipped(n.item.val, fl))))) IN
        /\ srecv' = [srecv EXCEPT ![e] = Append(@, Open(saes[e], r))]
        /\ sseen' = [sseen EXCEPT ![e] = Append(@, r)]
    /\ swire' = [swire EXCEPT ![Other(e)] = n.rest]
    /\ nadv' = nadv + 1
    /\ UNCHANGED <<spc, ssecret, saes, sout, ssent, smade, shs, sclosed,
                   notSec>>

\* The envelopes the network may put on the wire itself.
Injected == {Handshake(public_key(1)), Encrypted(<<>>, [i \in 1..NonceLen |-> 0])}

\* Envelope m is put on the wire towards the peer of e.
Inject(e, m) ==
    /\ nadv < MaxAdv
    /\ ~sclosed[e]
    /\ LET f == MessageStartSend(m) IN
        /\ f.ok
        /\ swire' = [swire EXCEPT ![e] = @ \o f.val]
    /\ nadv' = nadv + 1
    /\ UNCHANGED <<spc, ssecret, saes, sout, ssent, srecv, sseen, smade, shs,
                   sclosed, notSec>>

\* The end of e is closed: its peer reads what was written and then the end
\* of the stream.
Close(e) ==
    /\ ~sclosed[e]
    /\ sclosed' = [sclosed EXCEPT ![e] = TRUE]
    /\ UNCHANGED <<spc, ssecret, saes, swire, sout, ssent, srecv, sseen,
                   smade, shs, nadv, notSec>>

InitSecure ==
    /\ spc = [e \in Peers |-> "new"]
    /\ ssecret = [e \in Peers |-> 0]
    /\ saes = [e \in Peers |-> NoKey]
    /\ swire = [e \in Peers |-> <<>>]
    /\ sout = [e \in Peers |-> <<>>]
    /\ ssent = [e \in Peers |-> <<>>]
    /\ srecv = [e \in Peers |-> <<>>]
    /\ sseen = [e \in Peers |-> <<>>]
    /\ smade = [e \in Peers |-> <<>>]
    /\ shs = [e \in Peers |-> NoResult]
    /\ sclosed = [e \in Peers |-> FALSE]
    /\ nadv = 0

NextSecure ==
    \/ \E e \in Peers, secret \in Secrets : HandshakeSend(e, secret)
    \/ \E e \in Peers : HandshakeRecv(e)
    \/ \E e \in Peers, item \in SecureItems, nonce \in Nonces :
            SecureSend(e, item, nonce)
    \/ \E e \in Peers : SecureRecv(e)

\* The honest steps, with one secret for each peer, one item and one nonce.
NextIntruder ==
    \/ \E e \in Peers : HandshakeSend(e, IF e = "client" THEN 1 ELSE 2)
    \/ \E e \in Peers : HandshakeRecv(e)
    \/ \E e \in Peers :
            SecureSend(e, TestEnum(<<66>>, 69), [i \in 1..NonceLen |-> i])
    \/ \E e \in Peers : SecureRecv(e)
    \/ \E e \in Peers, fl \in Flips : SecureRecvFlipped(e, fl)
    \/ \E e \in Peers, m \in Injected : Inject(e, m)
    \/ \E e \in Peers : Close(e)

(***************************************************************************)
(* Client: the editor widget (client/src/app/vim.rs).                      *)
(***************************************************************************)
\* Key events handled in one run.
MaxKeys == 7
\* The longest content of the text area, and the longest command line.
MaxText == 1
MaxCommand == 3

\* KeyCode::Char(c), by c, and the other key codes.
Digits == {"0", "1", "2", "3", "4", "5", "6", "7", "8", "9"}
DigitOf == ("0" :> 0) @@ ("1" :> 1) @@ ("2" :> 2) @@ ("3" :> 3) @@ ("4" :> 4)
            @@ ("5" :> 5) @@ ("6" :> 6) @@ ("7" :> 7) @@ ("8" :> 8)
            @@ ("9" :> 9)
Letters == {"i", "v", ":", "y", "d", "q", "w", "g", "G", "p", "$", "h", "x"}
CharCodes == Digits \cup Letters
Moves == {"Left", "Right", "Up", "Down", "h", "j", "k", "l", "w", "b"}

\* KeyEvent { code, kind, .. }
KeyEvent(code, kind) == [code |-> code, kind |-> kind]
Press(code) == KeyEvent(code, "Press")

\* Every key event the widget is asked about: KeyEventKind is Press,
\* Repeat or Release.
KeyEvents ==
    {KeyEvent(c, k) :
        c \in CharCodes \cup Moves
                \cup {"Esc", "Enter", "Backspace", "Delete", "Tab", "Insert",
                      "F1"},
        k \in {"Press", "Repeat", "Release"}}

\* What the text area may hold.
Texts == UNION {[1..n -> {"x"}] : n \in 0..MaxText}

\* Action
ActionEmpty == [tag |-> "Empty", ch |-> "", num |-> 0]
ActionChar(c) == [tag |-> "Char", ch |-> c, num |-> 0]
ActionNumber(n) == [tag |-> "Number", ch |-> "", num |-> n]
ActionCharNumber(c, n) == [tag |-> "CharNumber", ch |-> c, num |-> n]

\* Action::from_key.  The pattern '0'..'9' leaves its upper end out.
from_key(code) ==
    IF code \in Digits \ {"9"} THEN ActionNumber(DigitOf[code])
    ELSE IF code \in CharCodes THEN ActionChar(code)
    ELSE ActionEmpty

\* Action::update: the action after the key event.  A number of at most
\* MaxKeys digits is within the range of a u32.
update(a, event) ==
    IF event.kind # "Press" THEN a
    ELSE LET k == from_key(event.code) IN
         IF k.tag = "Char" THEN ActionChar(k.ch)
         ELSE IF k.tag = "Empty" THEN ActionEmpty
         ELSE IF a.tag = "Empty" THEN ActionNumber(k.num)
         ELSE IF a.tag = "Char" THEN ActionCharNumber(a.ch, k.num)
         ELSE IF a.tag = "CharNumber"
         THEN ActionCharNumber(a.ch, a.num * 10 + k.num)
         ELSE ActionNumber(a.num * 10 + k.num)

\* Action::get_char
get_char(a) == IF a.tag \in {"Char", "CharNumber"} THEN a.ch ELSE ""

\* InteractiveEvent
RedrawRequest == [type |-> "RedrawRequest", content |-> <<>>]
SendMessageEvent(content) == [type |-> "SendMessage", content |-> content]
Quit == [type |-> "Quit", content |-> <<>>]

\* What a handler of the widget leaves: the mode, prev_action, the text
\* area and the command line, the events it sent, the commands it ran and
\* the value it returns.
Outcome(m, a, t, c, out, ran, ret) ==
    [mode |-> m, prev |-> a, text |-> t, cmd |-> c, out |-> out, ran |-> ran,
     ret |-> ret]

\* The handler changes prev_action at most.
Keep(a, ret) ==
    Outcome(mode, a, text_area, command_text_area, <<>>, <<>>, ret)

\* The handler enters mode m.
Enter(m, a) ==
    Outcome(m, a, text_area, command_text_area, <<>>, <<>>, TRUE)

\* The handler edits the text area: tui_textarea cuts, deletes or pastes.
Edit(a, texts) ==
    {Outcome(mode, a, t, command_text_area, <<>>, <<>>, TRUE) : t \in texts}

Shrunk == {t \in Texts : Len(t) <= Len(text_area)}
Grown == {t \in Texts : Len(t) >= Len(text_area)}

\* yank_text() after select_all() and cut(): the content that was cut, or
\* with nothing to cut what was yanked before.
Yanked == IF text_area # <<>> THEN {text_area} ELSE Texts

\* SendMessageWidget::send_message, then the events in more: the text area
\* is emptied and its content sent as a SendMessage event.
send_message(m, a, c, more, ran, ret) ==
    {Outcome(m, a, <<>>, c, <<SendMessageEvent(content)>> \o more, ran,
             ret \/ text_area # <<>>) : content \in Yanked}

\* SendMessageWidget::normal_input
normal_input(event) ==
    LET code == event.code IN
    IF event.kind # "Press" THEN {Keep(prev_action, FALSE)}
    ELSE IF code = "Esc" THEN {Keep(ActionEmpty, FALSE)}
    ELSE IF code = "i" THEN {Enter("Insert", ActionEmpty)}
    ELSE IF code = "v" THEN {Enter("Visual", ActionEmpty)}
    ELSE IF code = "Enter"
    THEN IF text_area # <<>>
         THEN send_message(mode, ActionEmpty, command_text_area, <<>>, <<>>,
                           FALSE)
         ELSE {Keep(ActionEmpty, FALSE)}
    ELSE IF code \in Digits /\ (prev_action.tag = "Number" \/ code # "0")
    THEN {Keep(update(prev_action, event), FALSE)}
    ELSE IF code = "0" THEN {Keep(prev_action, TRUE)}
    ELSE IF code = "g"
    THEN IF prev_action = ActionChar("g") THEN {Keep(ActionEmpty, TRUE)}
         ELSE {Keep(update(prev_action, event), TRUE)}
    ELSE IF code = "G" THEN {Keep(prev_action, TRUE)}
    ELSE IF code = "d"
    THEN IF prev_action = ActionChar("d") THEN Edit(ActionEmpty, Shrunk)
         ELSE {Keep(update(prev_action, event), FALSE)}
    ELSE IF code = "y"
    THEN IF prev_action = ActionChar("y") THEN {Keep(ActionEmpty, TRUE)}
         ELSE {Keep(update(prev_action, event), FALSE)}
    ELSE IF code = "p" THEN Edit(ActionEmpty, Grown)
    ELSE IF code = "$" THEN {Keep(ActionEmpty, TRUE)}
    ELSE IF code = ":"
    THEN {Outcome("Command", ActionEmpty, text_area, <<":">>, <<>>, <<>>,
                  TRUE)}
    ELSE IF code \in Moves
    THEN IF get_char(prev_action) = "d" THEN Edit(ActionEmpty, Shrunk)
         ELSE {Keep(ActionEmpty, TRUE)}
    ELSE {Keep(prev_action, FALSE)}

\* SendMessageWidget::visual_input
visual_input(event) ==
    LET code == event.code IN
    IF event.kind # "Press" THEN {Keep(prev_action, FALSE)}
    ELSE IF code = "Esc" THEN {Enter("Normal", ActionEmpty)}
    ELSE IF code = "y" THEN {Enter("Normal", prev_action)}
    ELSE IF code = "d"
    THEN {Outcome("Normal", prev_action, t, command_text_area, <<>>, <<>>,
                  TRUE) : t \in Shrunk}
    ELSE IF code \in Moves THEN {Keep(ActionEmpty, TRUE)}
    ELSE {Keep(prev_action, FALSE)}

\* The command line after tui_textarea has put c into it, wherever the
\* cursor is.
Inserted(c) ==
    {SubSeq(command_text_area, 1, i) \o <<c>>
        \o SubSeq(command_text_area, i + 1, Len(command_text_area)) :
            i \in 0..Len(command_text_area)}

\* The command line after a Backspace or a Delete.
Erased ==
    {command_text_area} \cup
    {SubSeq(command_text_area, 1, i - 1)
        \o SubSeq(command_text_area, i + 1, Len(command_text_area)) :
            i \in 1..Len(command_text_area)}

\* command_text_area.input(event): the line is edited or the cursor moves.
CommandEdit(lines) ==
    {Outcome(mode, prev_action, text_area, c, <<>>, <<>>, ret) :
        c \in lines, ret \in BOOLEAN}

\* SendMessageWidget::command_input
command_input(event) ==
    LET code == event.code
        command == command_text_area IN
    IF event.kind # "Press" THEN {Keep(prev_action, FALSE)}
    ELSE IF code = "Esc"
    THEN {Outcome("Normal", prev_action, text_area, <<>>, <<>>, <<>>, TRUE)}
    ELSE IF code = "Enter"
    THEN IF command = <<":", "q">>
         THEN {Outcome("Normal", prev_action, text_area, <<>>, <<Quit>>,
                       <<command>>, TRUE)}
         ELSE IF command = <<":", "w">>
         THEN send_message("Normal", prev_action, <<>>, <<>>, <<command>>,
                           TRUE)
         ELSE IF command \in {<<":", "w", "q">>, <<":", "q", "w">>}
         THEN send_message("Normal", prev_action, <<>>, <<Quit>>,
                           <<command>>, TRUE)
         ELSE {Outcome("Normal", prev_action, text_area, <<>>, <<>>,
                       <<command>>, TRUE)}
    ELSE IF code \in CharCodes \cup {"Tab"} THEN CommandEdit(Inserted(code))
    ELSE IF code \in {"Backspace", "Delete"} THEN CommandEdit(Erased)
    ELSE IF code \in {"Insert", "Left", "Right"} THEN CommandEdit({command})
    ELSE {Keep(prev_action, FALSE)}

\* An Insert mode that hands every event, Esc too, to the text area.
insert_all(event) ==
    {Outcome(mode, prev_action, t, command_text_area, <<>>, <<>>,
             t # text_area) : t \in Texts}

\* SendMessageWidget::insert_input: Esc of any kind leaves the mode, every
\* other event goes to the text area.
insert_input(event) ==
    IF event.code = "Esc" THEN {Enter("Normal", prev_action)}
    ELSE {Outcome(mode, prev_action, t, command_text_area, <<>>, <<>>,
                  t # text_area) : t \in Texts}

\* SendMessageWidget::input
input(event) ==
    IF mode = "Normal" THEN normal_input(event)
    ELSE IF mode = "Insert" THEN insert_input(event)
    ELSE IF mode = "Command" THEN command_input(event)
    ELSE visual_input(event)

\* The key events of a run, by the mode they arrive in.
KeysIn(m) ==
    LET codes ==
            IF m = "Normal"
            THEN {"Esc", "Enter", "Left", "F1", "0", "1", "9"} \cup Letters
            ELSE IF m = "Insert" THEN {"Esc", "Enter", "x", "i"}
            ELSE IF m = "Visual" THEN {"Esc", "Enter", "y", "d", "h", "i", "1"}
            ELSE {"Esc", "Enter", "q", "w", "x", "Left", "Backspace", "F1"}
    IN  {KeyEvent(c, k) : c \in codes, k \in {"Press", "Release"}}

(***************************************************************************)
(* Client: the interactive loop (client/src/app.rs).                       *)
(***************************************************************************)
\* handle_term_event on a key event: the widget handles it, and a redraw
\* is requested when the widget says so.  The event stream yields a
\* terminal event only when the channel is empty.
KeyInput(event) ==
    /\ ipc = "running"
    /\ events = <<>>
    /\ nkeys < MaxKeys
    /\ event \in KeysIn(mode)
    /\ \E o \in input(event) :
        /\ Len(o.cmd) <= MaxCommand
        /\ mode' = o.mode
        /\ prev_action' = o.prev
        /\ text_area' = o.text
        /\ command_text_area' = o.cmd
        /\ entered' = entered \o o.ran
        /\ events' = events \o o.out
                        \o (IF o.ret THEN <<RedrawRequest>> ELSE <<>>)
    /\ nkeys' = nkeys + 1
    /\ UNCHANGED <<ipc, writes, wrote, notCli>>

\* InteractiveEvent::Quit => Ok(true): the loop breaks.
TakeQuit ==
    /\ ipc = "running"
    /\ events # <<>>
    /\ Head(events).type = "Quit"
    /\ events' = Tail(events)
    /\ ipc' = "exited"
    /\ UNCHANGED <<mode, prev_action, text_area, command_text_area, writes,
                   wrote, entered, nkeys, notCli>>

\* InteractiveEvent::RedrawRequest: the terminal is drawn.
TakeRedrawRequest ==
    /\ ipc = "running"
    /\ events # <<>>
    /\ Head(events).type = "RedrawRequest"
    /\ events' = Tail(events)
    /\ UNCHANGED <<mode, prev_action, text_area, command_text_area, ipc,
                   writes, wrote, entered, nkeys, notCli>>

\* InteractiveEvent::SendMessage { content }: the write is spawned as a
\* task of its own and the loop goes on to the next event.
TakeSendMessage ==
    /\ ipc = "running"
    /\ events # <<>>
    /\ Head(events).type = "SendMessage"
    /\ events' = Tail(events)
    /\ writes' = Append(writes, Head(events).content)
    /\ UNCHANGED <<mode, prev_action, text_area, command_text_area, ipc,
                   wrote, entered, nkeys, notCli>>

\* A spawned write runs: write_msg.lock().await.send(..).
Write(i) ==
    /\ i \in 1..Len(writes)
    /\ wrote' = Append(wrote, writes[i])
    /\ writes' = SubSeq(writes, 1, i - 1) \o SubSeq(writes, i + 1, Len(writes))
    /\ UNCHANGED <<mode, prev_action, text_area, command_text_area, events,
                   ipc, entered, nkeys, notCli>>

\* App::new and SendMessageWidget::new.
InitClient ==
    /\ mode = "Normal"
    /\ prev_action = ActionEmpty
    /\ text_area = <<>>
    /\ command_text_area = <<>>
    /\ events = <<>>
    /\ ipc = "running"
    /\ writes = <<>>
    /\ wrote = <<>>
    /\ entered = <<>>
    /\ nkeys = 0

NextClient ==
    \/ \E m \in {"Normal", "Insert", "Visual", "Command"} :
            \E event \in KeysIn(m) : KeyInput(event)
    \/ TakeQuit
    \/ TakeRedrawRequest
    \/ TakeSendMessage
    \/ \E i \in 1..MaxKeys : Write(i)

(***************************************************************************)
(* The specifications.                                                     *)
(***************************************************************************)
\* A server that has accepted nothing and spawned nothing.
IdleServer == InitServerVars /\ max_concurrency = MaxK

InitServer == InitServerVars /\ InitCodec /\ InitSecure /\ InitClient
NextServer == StepServer
SpecServer == InitServer /\ [][NextServer]_vars

\* The server with max_concurrency at its largest, every connection from an
\* address of its own, clients that join and leave without a chat message,
\* sends that may fail and records that may not decode.
NextFaulty ==
    \/ \E l \in Listeners : Accept(l, 5000 + nconns + 1)
    \/ \E l \in Listeners : LimitPassed(l)
    \/ \E l \in Listeners, c \in Conns : Reap(l, c)
    \/ \E c \in Conns, name \in Names : RecvJoinRequest(c, name)
    \/ \E c \in Conns : GetRecord(c)
    \/ \E c \in Conns : LockForAccept(c)
    \/ \E c \in Conns : SendAcceptJoin(c)
    \/ \E c \in Conns : SendAcceptJoinFailed(c)
    \/ \E c \in Conns : JoinBroadcast(c)
    \/ \E c \in Conns : RecvUndecodable(c)
    \/ \E c \in Conns : RecvClose(c)
    \/ \E c \in Conns : ExitBroadcast(c)
    \/ \E t \in Tasks : TaskSnapshot(t)
    \/ \E t \in Tasks, r \in Conns : TaskLock(t, r)
    \/ \E t \in Tasks, r \in Conns : TaskSend(t, r)
    \/ \E t \in Tasks, r \in Conns : TaskSendFailed(t, r)

InitFaulty == IdleServer /\ InitCodec /\ InitSecure /\ InitClient
SpecFaulty == InitFaulty /\ [][NextFaulty]_vars

\* The accept loops and their handlers up to the spawn of a broadcast.  A
\* listener task that can take a step of its loop does take it: the runtime
\* polls a task that was woken.
NextListener ==
    \/ \E l \in Listeners, a \in Addrs : Accept(l, a)
    \/ \E l \in Listeners : LimitPassed(l)
    \/ \E l \in Listeners, c \in Conns : Reap(l, c)
    \/ \E l \in Listeners : ReapNone(l)
    \/ \E c \in Conns : RecvAbort(c)
    \/ \E c \in Conns, name \in Names : RecvJoinRequest(c, name)
    \/ \E c \in Conns : GetRecord(c)
    \/ \E c \in Conns : LockForAccept(c)
    \/ \E c \in Conns : SendAcceptJoin(c)
    \/ \E c \in Conns : JoinBroadcast(c)
    \/ \E c \in Conns : RecvClose(c)
    \/ \E c \in Conns : ExitBroadcast(c)

FairListener ==
    \A l \in Listeners :
        /\ WF_vars(LimitPassed(l))
        /\ WF_vars(\E c \in Conns : Reap(l, c))

SpecListener == InitServer /\ [][NextListener]_vars /\ FairListener

\* run_loop from its start, with none, one or two listen addresses, accepts
\* that may fail and handlers that end before a join.
InitRunLoop ==
    /\ max_concurrency \in 0..MaxK
    /\ listen_addresses \in 0..MaxListeners
    /\ rpc = "bind"
    /\ nbound = 0
    /\ lpc = [l \in Listeners |-> "none"]
    /\ NoConnections
    /\ InitCodec
    /\ InitSecure
    /\ InitClient

NextRunLoop ==
    \/ Bind
    \/ BindFailed
    \/ Bound
    \/ \E l \in Listeners : SpawnListener(l)
    \/ Await
    \/ Return
    \/ \E l \in Listeners, a \in Addrs : Accept(l, a)
    \/ \E l \in Listeners : AcceptFailed(l)
    \/ \E l \in Listeners : LimitPassed(l)
    \/ \E l \in Listeners, c \in Conns : Reap(l, c)
    \/ \E l \in Listeners : ReapNone(l)
    \/ \E c \in Conns : RecvAbort(c)

SpecRunLoop == InitRunLoop /\ [][NextRunLoop]_vars

\* The client's editor and interactive loop, from the start of the loop.
InitClientSpec == IdleServer /\ InitCodec /\ InitSecure /\ InitClient
SpecClient == InitClientSpec /\ [][NextClient]_vars

\* Names a repeated JoinRequest may carry.
RejoinNames == Names \cup {"bob"}

\* The server with max_concurrency at its largest and every connection from
\* an address of its own, and clients that send a record their handler does
\* not expect: a SendMessage before the join, a JoinRequest after it.  The
\* streams of joined clients stay open.
NextStray ==
    \/ \E l \in Listeners : Accept(l, 5000 + nconns + 1)
    \/ \E l \in Listeners : LimitPassed(l)
    \/ \E l \in Listeners, c \in Conns : Reap(l, c)
    \/ \E c \in Conns : RecvAbort(c)
    \/ \E c \in Conns : RecvOther(c)
    \/ \E c \in Conns, name \in Names : RecvJoinRequest(c, name)
    \/ \E c \in Conns : GetRecord(c)
    \/ \E c \in Conns : LockForAccept(c)
    \/ \E c \in Conns : SendAcceptJoin(c)
    \/ \E c \in Conns : JoinBroadcast(c)
    \/ \E c \in Conns, name \in RejoinNames : RecvRejoin(c, name)
    \/ \E c \in Conns, m \in Msgs : RecvSendMessage(c, m)
    \/ \E t \in Tasks : TaskSnapshot(t)
    \/ \E t \in Tasks, r \in Conns : TaskLock(t, r)
    \/ \E t \in Tasks, r \in Conns : TaskSend(t, r)

InitStray == IdleServer /\ InitCodec /\ InitSecure /\ InitClient
SpecStray == InitStray /\ [][NextStray]_vars

InitCodecSpec == IdleServer /\ InitCodec /\ InitSecure /\ InitClient
SpecCodec == InitCodecSpec /\ [][NextCodec]_vars

\* The streams with a peer that may write a malformed frame.
NextGarbled ==
    \/ \E k \in StreamKinds, item \in Records : CodecSend(k, item)
    \/ \E k \in StreamKinds, item \in Records, f \in Faults :
            CodecSendGarbled(k, item, f)
    \/ \E k \in StreamKinds : CodecRecv(k)

SpecGarbled == InitCodecSpec /\ [][NextGarbled]_vars

InitSecureSpec == IdleServer /\ InitCodec /\ InitSecure /\ InitClient
SpecSecure == InitSecureSpec /\ [][NextSecure]_vars

\* handshake() of e is at inner.next() and the inner stream has an envelope
\* for it: HandshakeRecv(e) can be taken.
RecvReady(e) == spc[e] = "sent" /\ InnerNext(e).some

\* Both peers have called handshake() and the connection is reliable: a
\* call that can send goes on, and one that has an envelope to read reads
\* it (weak fairness of HandshakeRecv, with its enabling condition written
\* out).
FairSecure ==
    \A e \in Peers :
        /\ WF_vars(\E secret \in Secrets : HandshakeSend(e, secret))
        /\ []<>(~RecvReady(e)) \/ []<><<HandshakeRecv(e)>>_vars

SpecHandshake == InitSecureSpec /\ [][NextSecure]_vars /\ FairSecure

\* The secure channel over a network that alters the traffic.
SpecIntruder == InitSecureSpec /\ [][NextIntruder]_vars

(***************************************************************************)
(* Server: what the claims speak of.                                       *)
(***************************************************************************)
\* Connections in the Joined state (in the read loop that follows the join).
JoinedConns == {c \in Conns : hpc[c] = "joined"}

\* Connections whose join or exit sequence is under way.
Transient == {c \in Conns : hpc[c] \in {"inserted", "got", "locking",
                                         "accepted", "removed"}}

\* Positions of the frames task t sent on r's sink.
WritesBy(t, r) == {i \in 1..Len(write_msg[r]) : write_msg[r][i].by = Task(t)}

\* Connections the handler of which has read a ClientMessage.
HasReadMessage(c) == hpc[c] \in {"inserted", "got", "locking", "accepted",
                                 "joined", "removed", "done", "panicked"}

(***************************************************************************)
(* C1.  On every listener, for every configured max_concurrency K, the     *)
(* handler tasks that have started and not completed number at most K.     *)
(***************************************************************************)
C1_ConcurrencyBound ==
    \A l \in Listeners : Cardinality(Active(l)) <= max_concurrency

\* What the acceptor does keep: at most K handlers, or one when K is 0.
C1_BoundKept ==
    \A l \in Listeners :
        Cardinality(Active(l)) <= IF max_concurrency = 0 THEN 1
                                  ELSE max_concurrency

(***************************************************************************)
(* C2.  With N clients joined and no join or leave during the broadcast, a *)
(* SendMessage read from joined connection S results in exactly N          *)
(* ReceiveMessage writes: one to each joined client, S included, each with *)
(* S's identity as sender and the text sent.                               *)
(***************************************************************************)
C2_FanOut ==
    \A t \in Tasks :
        ( /\ tasks[t].pc = "done"
          /\ tasks[t].msg.type = "ReceiveMessage"
          /\ tasks[t].ver = regver
          /\ Transient = {} )
        => /\ tasks[t].msg.src \in JoinedConns
              => /\ \A r \in JoinedConns : Cardinality(WritesBy(t, r)) = 1
                 /\ \A r \in Conns \ JoinedConns : WritesBy(t, r) = {}
           /\ \A r \in Conns : \A i \in WritesBy(t, r) :
                 /\ write_msg[r][i].msg.sender = client_id[tasks[t].msg.src]
                 /\ write_msg[r][i].msg.message = tasks[t].msg.message

\* No two connections that hold or held a place in the registry share an
\* identity.
DistinctIds ==
    \A c, d \in Conns :
        (c # d /\ client_id[c] # NoId /\ client_id[d] # NoId)
            => client_id[c] # client_id[d]

\* The fan-out as the code keeps it: while identities are distinct.
C2_FanOutDistinct == DistinctIds => C2_FanOut

(***************************************************************************)
(* C3.  A connection that reached Joined makes, on exit, exactly one       *)
(* registry removal and then spawns exactly one ClientListUpdate           *)
(* broadcast; once its handler has exited the registry holds no record of  *)
(* that connection.                                                        *)
(***************************************************************************)
C3_ExitOnce ==
    \A c \in Conns :
        /\ nexitcasts[c] <= nremoves[c]
        /\ nremoves[c] <= 1
        /\ hpc[c] \in {"idle", "connected", "aborted", "inserted", "got",
                       "locking", "accepted", "joined", "panicked"}
              => nremoves[c] = 0
        /\ hpc[c] = "done"
              => /\ nremoves[c] = 1
                 /\ nexitcasts[c] = 1
                 /\ \A k \in Ids : clients[k] # c
                 /\ \E t \in 1..ntasks :
                        tasks[t].msg.type = "ClientListUpdate"

C3_Witness ==
    \E c \in Conns : hpc[c] = "done" /\ nremoves[c] = 1 /\ nexitcasts[c] = 1

(***************************************************************************)
(* C4.  A JoinRequest whose identity is already a key of the registry      *)
(* replaces that entry with the new connection's record; the registry's    *)
(* size is the number of distinct identities inserted and not yet removed, *)
(* not the number of join attempts.                                        *)
(***************************************************************************)
C4_JoinOverride ==
    /\ [][\A c \in Conns, name \in Names :
            RecvJoinRequest(c, name)
                => /\ clients'[ClientId(name, haddr[c])] = c
                   /\ \A k \in Ids \ {ClientId(name, haddr[c])} :
                          clients'[k] = clients[k]
                   /\ Cardinality(Keys') =
                          Cardinality(Keys \cup {ClientId(name, haddr[c])})
         ]_vars
    /\ [](Keys = liveids /\ Cardinality(Keys) <= ninserts)

\* Two joins under one identity: the registry holds one entry, the later
\* connection's.
C4_Witness ==
    /\ ninserts = 2
    /\ Cardinality(Keys) = 1
    /\ client_id[1] = client_id[2]
    /\ \A c \in {1, 2} : hpc[c] \in {"inserted", "got", "locking", "accepted",
                                      "joined"}

(***************************************************************************)
(* C5.  Records of one connection are emitted in transport order: every    *)
(* recipient that is sent the ReceiveMessage frames of two SendMessages of *)
(* one connection is sent them in the order the SendMessages were read.    *)
(***************************************************************************)
C5_TransportOrder ==
    \A r \in Conns : \A i, j \in 1..Len(write_msg[r]) :
        ( /\ i < j
          /\ write_msg[r][i].msg.type = "ReceiveMessage"
          /\ write_msg[r][j].msg.type = "ReceiveMessage"
          /\ write_msg[r][i].msg.src = write_msg[r][j].msg.src )
        => write_msg[r][i].msg.seq < write_msg[r][j].msg.seq

(***************************************************************************)
(* C6.  AcceptJoin is the first frame the server writes to a connection    *)
(* whose JoinRequest it accepted.                                          *)
(***************************************************************************)
C6_AcceptJoinFirst ==
    \A c \in Conns :
        write_msg[c] # <<>> => write_msg[c][1].msg.type = "AcceptJoin"

(***************************************************************************)
(* C7.  The handler completes the Secure Channel handshake before it reads *)
(* any ClientMessage, and every record it writes afterwards travels in an  *)
(* Encrypted envelope.                                                     *)
(***************************************************************************)
C7_HandshakeFirst ==
    \A c \in Conns :
        /\ HasReadMessage(c) => transport[c] = "Secure"
        /\ \A i \in 1..Len(write_msg[c]) : write_msg[c][i].env = "Encrypted"

(***************************************************************************)
(* C10.  Every record sent through CborStream or through                   *)
(* CompressedCborStream is yielded by the peer's stream of the same kind   *)
(* as Ok of an equal record.                                               *)
(***************************************************************************)
C10_RoundTrip ==
    \A k \in StreamKinds :
        /\ Len(crecv[k]) <= Len(csent[k])
        /\ \A i \in 1..Len(crecv[k]) : crecv[k][i] = Ok(csent[k][i])

\* Both kinds of stream have yielded a record, one of them with a number
\* that takes a 4-byte argument.
C10_Witness ==
    /\ \A k \in StreamKinds : Len(crecv[k]) = 1 /\ crecv[k][1].ok
    /\ \E k \in StreamKinds : crecv[k][1].val.number = 70000

(***************************************************************************)
(* C8.  The envelopes an endpoint of a SecureStream transmits are exactly  *)
(* one Handshake followed only by Encrypted envelopes: no Encrypted before *)
(* its own Handshake, no second Handshake, and the stream is established   *)
(* only after its Handshake went out.                                      *)
(***************************************************************************)
C8_OneHandshake ==
    \A e \in Peers :
        /\ spc[e] = "new" <=> sout[e] = <<>>
        /\ sout[e] # <<>> => sout[e][1] = "Handshake"
        /\ \A i \in 2..Len(sout[e]) : sout[e][i] = "Encrypted"
        /\ Len(sout[e]) > 1 => spc[e] = "established"

C8_Witness ==
    \E e \in Peers : Len(sout[e]) = 3 /\ sout[e][3] = "Encrypted"

(***************************************************************************)
(* C9.  Two peers that run the handshake over one connection derive the    *)
(* same key, and every item one sends afterwards is yielded by the other   *)
(* as Ok of an equal item.                                                 *)
(***************************************************************************)
C9_SameKey ==
    /\ (\A e \in Peers : spc[e] = "established")
            => saes["client"] = saes["server"]
    /\ \A e \in Peers :
        /\ Len(srecv[e]) <= Len(ssent[Other(e)])
        /\ \A i \in 1..Len(srecv[e]) : srecv[e][i] = Ok(ssent[Other(e)][i])

\* The peers drew different secrets, and each has yielded the item the
\* other sent.
C9_Witness ==
    /\ ssecret["client"] # ssecret["server"]
    /\ \A e \in Peers : Len(srecv[e]) = 1 /\ srecv[e][1].ok

(***************************************************************************)
(* Secure channel: what the claims speak of.                               *)
(***************************************************************************)
\* The envelopes e built.
Made(e) == {smade[e][i] : i \in 1..Len(smade[e])}

\* The envelope the inner stream of e yielded for the i-th item of its
\* poll_next (the first it yielded went to handshake()).
SeenFor(e, i) == sseen[e][i + 1]

\* The i-th envelope e's poll_next read is an Encrypted one its peer did not
\* build.
Forged(e, i) ==
    /\ SeenFor(e, i).ok
    /\ SeenFor(e, i).val.kind = "Encrypted"
    /\ SeenFor(e, i).val \notin Made(Other(e))

(***************************************************************************)
(* C11.  On an established SecureStream an Encrypted envelope whose        *)
(* ciphertext or nonce differs from what the peer produced never yields an *)
(* Ok item: it yields Err(FailedDecryption{bytes}) with bytes the          *)
(* ciphertext received.                                                    *)
(***************************************************************************)
C11_TamperedFails ==
    \A e \in Peers : \A i \in 1..Len(srecv[e]) :
        Forged(e, i)
            => /\ srecv[e][i].err = "FailedDecryption"
               /\ srecv[e][i].val = SeenFor(e, i).val.data

\* Both peers hold the same key and an envelope one of them sealed reached
\* the other with a bit flipped.
C11_Witness ==
    /\ saes["client"] = saes["server"]
    /\ \E e \in Peers : \E i \in 1..Len(srecv[e]) :
        /\ Forged(e, i)
        /\ Len(SeenFor(e, i).val.data) > TagLen
        /\ srecv[e][i].err = "FailedDecryption"

(***************************************************************************)
(* C12.  handshake() returns an error and no established stream when the   *)
(* first envelope received is not a Handshake (ExpectedHandshake carrying  *)
(* the envelope received) and when the transport closes before the peer's  *)
(* Handshake arrives (an I/O error of kind ConnectionAborted).             *)
(***************************************************************************)
C12_HandshakeRefused ==
    \A e \in Peers :
        /\ spc[e] = "established" <=> shs[e].ok
        /\ spc[e] = "failed" <=> (~shs[e].ok /\ shs[e].err # "NoResult")
        /\ spc[e] = "failed" => saes[e] = NoKey /\ srecv[e] = <<>>
        /\ (sseen[e] # <<>> /\ sseen[e][1].ok
                /\ sseen[e][1].val.kind # "Handshake")
            => /\ spc[e] = "failed"
               /\ shs[e].err = "ExpectedHandshake"
               /\ shs[e].val = sseen[e][1].val
        /\ (sseen[e] # <<>> /\ sseen[e][1].err = "EndOfStream")
            => /\ spc[e] = "failed"
               /\ shs[e].err = "Io"
               /\ shs[e].val.err = "ConnectionAborted"

\* A peer was refused for an Encrypted envelope that came first.
C12_Witness ==
    \E e \in Peers :
        /\ spc[e] = "failed"
        /\ shs[e].err = "ExpectedHandshake"
        /\ shs[e].val.kind = "Encrypted"

\* A peer was refused for a transport closed before any Handshake came.
C12_WitnessClosed ==
    \E e \in Peers :
        /\ spc[e] = "failed"
        /\ sseen[e] = <<EndOfStream>>
        /\ shs[e].err = "Io"

(***************************************************************************)
(* C13.  A Handshake envelope received on an established SecureStream      *)
(* yields an error item of the AlreadyHandshaked variant, carrying the     *)
(* envelope received, and never an Ok item.                                *)
(***************************************************************************)
C13_AlreadyHandshaked ==
    \A e \in Peers : \A i \in 1..Len(srecv[e]) :
        (SeenFor(e, i).ok /\ SeenFor(e, i).val.kind = "Handshake")
            => /\ srecv[e][i].err = "AlreadyHandshaked"
               /\ srecv[e][i].val = SeenFor(e, i).val

\* What poll_next does yield: the Io variant, holding an io::Error of kind
\* Other the source of which is AlreadyHandshaked with the envelope.
C13_WrappedInIo ==
    \A e \in Peers : \A i \in 1..Len(srecv[e]) :
        (SeenFor(e, i).ok /\ SeenFor(e, i).val.kind = "Handshake")
            => /\ srecv[e][i].err = "Io"
               /\ srecv[e][i].val.err = "Other"
               /\ srecv[e][i].val.val.err = "AlreadyHandshaked"
               /\ srecv[e][i].val.val.val = SeenFor(e, i).val

(***************************************************************************)
(* C14.  A recipient whose send never completes or fails keeps no other    *)
(* recipient of a broadcast from its write: every send of a running        *)
(* broadcast that has not started can start as soon as its own recipient's *)
(* guard is free, a send that holds the guard can complete, and a          *)
(* broadcast that has returned has written to every recipient of its       *)
(* snapshot but those the send to which failed.                            *)
(***************************************************************************)
FailedSend(t, r) == <<"send", t, r>> \in faults

C14_NoHeadOfLine ==
    \A t \in Tasks : \A r \in Conns :
        /\ (tasks[t].pc = "running" /\ r \in tasks[t].todo
                /\ lock[r] = Unlocked)
            => ENABLED TaskLock(t, r)
        /\ lock[r] = Task(t) => ENABLED TaskSend(t, r)
        /\ (tasks[t].pc = "done" /\ r \in tasks[t].rcpts)
            => (FailedSend(t, r) <=> WritesBy(t, r) = {})

\* A broadcast returned after its send to one recipient failed and its send
\* to another was written.
C14_Witness ==
    \E t \in Tasks : \E r, q \in Conns :
        /\ tasks[t].pc = "done"
        /\ {r, q} \subseteq tasks[t].rcpts
        /\ FailedSend(t, r)
        /\ WritesBy(t, r) = {}
        /\ WritesBy(t, q) # {}

\* A broadcast wrote to one recipient while its send to another, started
\* before, has not completed.
C14_WitnessBlocked ==
    \E t \in Tasks : \E r, q \in Conns :
        /\ lock[r] = Task(t)
        /\ q \in tasks[t].rcpts
        /\ WritesBy(t, q) # {}
        /\ \E u \in Tasks \ {t} : tasks[u].pc = "running" /\ r \in tasks[u].todo

(***************************************************************************)
(* C15.  At most one task is writing to a connection's sink: the joining   *)
(* handler's AcceptJoin write and the broadcast sends to that connection   *)
(* exclude one another, and the one that writes holds the sink's guard.    *)
(***************************************************************************)
\* The handlers and broadcasts that passed lock() on r's sink and have not
\* finished their send, told from where each of them stands.
Writers(r) ==
    {Handler(c) : c \in {d \in Conns : hpc[d] = "locking" /\ target[d] = r}}
        \cup
    {Task(t) : t \in {u \in Tasks :
                        /\ tasks[u].pc = "running"
                        /\ r \in tasks[u].rcpts \ tasks[u].todo
                        /\ WritesBy(u, r) = {}
                        /\ ~FailedSend(u, r)}}

C15_SingleWriter ==
    \A r \in Conns :
        /\ Cardinality(Writers(r)) <= 1
        /\ Writers(r) # {} => lock[r] \in Writers(r)

\* A handler is writing AcceptJoin while a broadcast has a send for the same
\* connection that has not started.
C15_Witness ==
    \E r \in Conns : \E c \in Conns : \E t \in Tasks :
        /\ Writers(r) = {Handler(c)}
        /\ tasks[t].pc = "running"
        /\ r \in tasks[t].todo

\* A broadcast is writing while another broadcast has a send for the same
\* connection that has not started.
C15_WitnessBroadcasts ==
    \E r \in Conns : \E t, u \in Tasks :
        /\ t # u
        /\ Writers(r) = {Task(t)}
        /\ tasks[u].pc = "running"
        /\ r \in tasks[u].todo

(***************************************************************************)
(* C16.  A joined connection's read loop never waits for a broadcast:      *)
(* while the broadcast of a SendMessage that a handler read has not        *)
(* returned, that handler is at the read of its own connection or past     *)
(* the loop, and at the read it can take its connection's next record.     *)
(***************************************************************************)
\* The broadcasts of SendMessages read from connection c that have not
\* returned.
PendingCasts(c) ==
    {t \in Tasks : /\ tasks[t].pc \in {"spawned", "running"}
                   /\ tasks[t].msg.type = "ReceiveMessage"
                   /\ tasks[t].msg.src = c}

C16_ReadLoopFree ==
    \A c \in Conns :
        PendingCasts(c) # {}
            => /\ hpc[c] \in {"joined", "removed", "done"}
               /\ hpc[c] = "joined" => ENABLED RecvClose(c)
               /\ (hpc[c] = "joined" /\ nsends < MaxSends /\ ntasks < MaxTasks)
                    => \A m \in Msgs : ENABLED RecvSendMessage(c, m)

\* A handler read a second SendMessage while a send of the broadcast of its
\* first one holds a recipient's guard and has not completed.
C16_Witness ==
    \E c, r \in Conns : \E t, u \in Tasks :
        /\ {t, u} \subseteq PendingCasts(c)
        /\ tasks[t].msg.seq < tasks[u].msg.seq
        /\ lock[r] = Task(t)
        /\ hpc[c] = "joined"

(***************************************************************************)
(* C17.  In the Joined state a record that fails to decode halts the       *)
(* handler: once such a record was read from a connection, its handler has *)
(* left the read loop and removed its identity (the exit sequence).        *)
(***************************************************************************)
BadRead(c) == \E f \in faults : f[1] = "read" /\ f[2] = c

C17_DecodeErrorHalts ==
    \A c \in Conns :
        BadRead(c) => /\ hpc[c] \in {"removed", "done"}
                      /\ nremoves[c] = 1

\* What the handler does: after the record that did not decode it is at the
\* read of the next record, its identity still registered.
C17_DecodeErrorSkipped ==
    [][\A c \in Conns :
        RecvUndecodable(c) => /\ hpc'[c] = "joined"
                              /\ clients' = clients
                              /\ tasks' = tasks]_vars

(***************************************************************************)
(* C18.  For every configured max_concurrency: a listener that waits at    *)
(* the concurrency limit while a handler of its own has completed          *)
(* eventually returns to accepting connections.                            *)
(***************************************************************************)
AtLimit(l) == lpc[l] = "limit" /\ \E c \in futures[l] : Finished(c)

C18_ListenerResumes ==
    \A l \in Listeners : AtLimit(l) ~> lpc[l] = "accept"

\* The listener does resume when max_concurrency is 1 or more.
C18_ResumesWhenPositive ==
    \A l \in Listeners :
        (max_concurrency >= 1 /\ AtLimit(l)) ~> lpc[l] = "accept"

\* With max_concurrency 0 a listener that accepted once stays at the limit.
C18_StuckAtZero ==
    [][\A l \in Listeners :
        (max_concurrency = 0 /\ lpc[l] = "limit") => lpc'[l] = "limit"]_vars

(***************************************************************************)
(* C19.  Roster convergence: when no join or exit sequence is under way    *)
(* and every spawned broadcast has returned with no failed send, the last  *)
(* ClientListUpdate written to each client in the registry lists the       *)
(* registry's key set.                                                     *)
(***************************************************************************)
Quiescent ==
    /\ Transient = {}
    /\ \A t \in Tasks : tasks[t].pc \in {"free", "done"}
    /\ \A t \in Tasks : \A r \in Conns : ~FailedSend(t, r)

\* Positions of the ClientListUpdate frames on r's sink.
Rosters(r) ==
    {i \in 1..Len(write_msg[r]) : write_msg[r][i].msg.type = "ClientListUpdate"}

\* The last of them.
LastRoster(r) ==
    write_msg[r][CHOOSE i \in Rosters(r) : \A j \in Rosters(r) : j <= i].msg

C19_RosterConverges ==
    Quiescent =>
        \A k \in Keys :
            /\ Rosters(clients[k]) # {}
            /\ LastRoster(clients[k]).clients = Keys

(***************************************************************************)
(* C20.  On the read path of CborStream and CompressedCborStream a bad     *)
(* length prefix, a truncated frame, a decompression failure and a         *)
(* deserialization failure each yield an error item at the place of the    *)
(* malformed frame, the errors of two different failures differ, and every *)
(* well-formed frame read yields its own record: none is skipped and none  *)
(* is returned in the place of another.                                    *)
(***************************************************************************)
\* The step of poll_next at which a malformed frame fails.
Stage(fault) ==
    IF fault = "length" THEN "Frame"
    ELSE IF fault = "truncated" THEN "Truncated"
    ELSE IF fault = "cbor" THEN "Deserialize"
    ELSE "Decompress"

C20_ErrorsSurface ==
    /\ \A k \in StreamKinds :
        /\ Len(crecv[k]) <= Len(csent[k])
        /\ \A i \in 1..Len(crecv[k]) :
            IF FaultAt(k, i) = "none"
            THEN crecv[k][i].ok /\ crecv[k][i].val = csent[k][i]
            ELSE ~crecv[k][i].ok /\ crecv[k][i].err = Stage(FaultAt(k, i))
    /\ \A k, q \in StreamKinds :
        \A i \in 1..Len(crecv[k]) : \A j \in 1..Len(crecv[q]) :
            (~crecv[k][i].ok /\ ~crecv[q][j].ok
                    /\ crecv[k][i].err # crecv[q][j].err)
                => IoError(crecv[k][i]) # IoError(crecv[q][j])

\* The run yielded the error of a refused length prefix and the error of a
\* block that does not decompress: two io::Errors of one ErrorKind that
\* differ in what they hold.
C20_Witness ==
    \E k, q \in StreamKinds :
        /\ crecv[k] # <<>> /\ crecv[q] # <<>>
        /\ crecv[k][1].err = "Frame"
        /\ crecv[q][1].err = "Decompress"
        /\ IoError(crecv[k][1]).kind = IoError(crecv[q][1]).kind

\* A stream yielded the error of a value that does not deserialize and then
\* the record of the frame after it.
C20_WitnessNext ==
    \E k \in StreamKinds :
        /\ Len(crecv[k]) = 2
        /\ crecv[k][1].err = "Deserialize"
        /\ crecv[k][2].ok

\* A stream yielded the error of a frame cut short by the end of the stream.
C20_WitnessTruncated ==
    \E k \in StreamKinds : \E i \in 1..Len(crecv[k]) :
        crecv[k][i].err = "Truncated"

(***************************************************************************)
(* C21.  run_loop returns only when every listener loop has exited: while  *)
(* a listener loop is running run_loop has not returned.                   *)
(***************************************************************************)
Returned == rpc \in {"ok", "err"}

C21_ReturnsAfterListeners ==
    Returned => \A l \in Listeners : lpc[l] \in {"none", "exited"}

\* run_loop returned Ok(()).
C21_Witness == rpc = "ok"

\* run_loop is at futures.next() with two listener loops running.
C21_WitnessWaiting ==
    /\ rpc = "wait"
    /\ Cardinality(Spawned \ Exited) = 2

\* What keeps run_loop from returning: no listener loop ever ends.
C21_ListenersNeverExit == Exited = {}

(***************************************************************************)
(* C30.  A failed accept on a listener spawns no handler, leaves the       *)
(* handlers in flight as they are and does not end the listener loop: the  *)
(* listener is at accept again.                                            *)
(***************************************************************************)
C30_FailedAcceptRetried ==
    [][\A l \in Listeners :
        AcceptFailed(l) => /\ nconns' = nconns
                           /\ hpc' = hpc
                           /\ futures' = futures
                           /\ lpc'[l] = "accept"
                           /\ rpc' = rpc]_vars

\* A listener accepted a connection after an accept of its own had failed.
C30_Witness ==
    \E f \in faults : \E c \in Conns :
        /\ f[1] = "accept"
        /\ hlistener[c] = f[2]
        /\ c > f[3]
        /\ hpc[c] # "idle"

(***************************************************************************)
(* C22.  When the roster of a join was read and its broadcast spawned, the *)
(* handler's write of AcceptJoin had finished, with success or with a      *)
(* logged error: the frame is on the sink or the send failed, and the      *)
(* handler holds the sink's guard no more.                                 *)
(***************************************************************************)
\* The tasks spawned on the join, the exit or a SendMessage of c.
TasksOf(why, c) == {t \in Tasks : origin[t] = <<why, c>>}

AcceptJoinWritten(c) ==
    \E i \in 1..Len(write_msg[target[c]]) :
        /\ write_msg[target[c]][i].by = Handler(c)
        /\ write_msg[target[c]][i].msg = AcceptJoin

AcceptJoinFailed(c) == <<"reply", c, 0>> \in faults

C22_ReplyBeforeRoster ==
    \A c \in Conns :
        TasksOf("join", c) # {}
            => /\ AcceptJoinWritten(c) # AcceptJoinFailed(c)
               /\ \A r \in Conns : lock[r] # Handler(c)

\* The broadcast of a join is spawned and has not started; AcceptJoin is on
\* the joining connection's sink.
C22_Witness ==
    \E c \in Conns : \E t \in TasksOf("join", c) :
        /\ tasks[t].pc = "spawned"
        /\ AcceptJoinWritten(c)

\* The same after a send of AcceptJoin that failed.
C22_WitnessFailed ==
    \E c \in Conns : \E t \in TasksOf("join", c) :
        /\ tasks[t].pc = "spawned"
        /\ AcceptJoinFailed(c)

(***************************************************************************)
(* C23.  The ClientListUpdate of an accepted join lists the registry's key *)
(* set as it is read, the joining connection's identity included, and the  *)
(* broadcast writes it to every client of the registry, the joining one    *)
(* included.                                                               *)
(***************************************************************************)
\* Broadcast t has returned and none of its sends failed.
Delivered(t) ==
    /\ tasks[t].pc = "done"
    /\ \A r \in Conns : ~FailedSend(t, r)

C23_JoinRoster ==
    \A c \in Conns : \A t \in TasksOf("join", c) :
        /\ tasks[t].msg.type = "ClientListUpdate"
        /\ client_id[c] \in tasks[t].msg.clients
        /\ tasks[t].ver = regver => tasks[t].msg.clients = Keys
        /\ (tasks[t].pc # "spawned" /\ hpc[c] = "joined")
            => target[c] \in tasks[t].rcpts
        /\ Delivered(t) => \A r \in tasks[t].rcpts : WritesBy(t, r) # {}

\* The roster of a join does reach the joining client while no two
\* connections have joined under one identity.
C23_JoinRosterDistinct == DistinctIds => C23_JoinRoster

(***************************************************************************)
(* C24.  On exit the identity is removed before the roster is read: the    *)
(* ClientListUpdate of the exit sequence does not list the identity of     *)
(* the connection that leaves.                                             *)
(***************************************************************************)
C24_ExitRoster ==
    \A c \in Conns : \A t \in TasksOf("exit", c) :
        /\ nremoves[c] = 1
        /\ tasks[t].msg.type = "ClientListUpdate"
        /\ client_id[c] \notin tasks[t].msg.clients

\* The roster of an exit leaves the identity out while no two connections
\* have joined under one identity.
C24_ExitRosterDistinct == DistinctIds => C24_ExitRoster

\* An exit roster that lists the leaving identity names a record another
\* connection has put under the equal key after the removal.
C24_ExitRosterListed ==
    \A c \in Conns : \A t \in TasksOf("exit", c) :
        client_id[c] \in tasks[t].msg.clients
            => \E d \in Conns \ {c} :
                    client_id[d] = client_id[c] /\ hpc[d] # "connected"

(***************************************************************************)
(* C25.  Before the join a ClientMessage that is no JoinRequest is         *)
(* discarded: the connection stays Connected, the registry is unchanged,   *)
(* nothing is written to any client and no broadcast is spawned.           *)
(***************************************************************************)
C25_OtherDiscarded ==
    [][\A c \in Conns : RecvOther(c) =>
            /\ hpc'[c] = "connected"
            /\ client_id' = client_id
            /\ clients' = clients
            /\ write_msg' = write_msg
            /\ tasks' = tasks
            /\ ntasks' = ntasks]_vars

\* A connection whose first record was a SendMessage has joined since.
C25_Witness ==
    \E f \in faults :
        /\ f[1] = "other"
        /\ hpc[f[2]] = "joined"
        /\ clients[client_id[f[2]]] = f[2]

(***************************************************************************)
(* C26.  After the join a further JoinRequest, under the same name or      *)
(* another, changes nothing: the identity of the connection stays the one  *)
(* of its join, the registry keeps its entries, no AcceptJoin is written   *)
(* and no broadcast is spawned.                                            *)
(***************************************************************************)
C26_RejoinIgnored ==
    [][\A c \in Conns :
            /\ client_id[c] # NoId => client_id'[c] = client_id[c]
            /\ \A name \in RejoinNames : RecvRejoin(c, name) =>
                    /\ hpc' = hpc
                    /\ clients' = clients
                    /\ write_msg' = write_msg
                    /\ tasks' = tasks
                    /\ ntasks' = ntasks]_vars

\* A joined connection has sent a JoinRequest under another name and holds
\* its place in the registry under the name of its join.
C26_Witness ==
    \E f \in faults :
        /\ f[1] = "rejoin"
        /\ f[4] # client_id[f[2]][1]
        /\ hpc[f[2]] = "joined"
        /\ clients[client_id[f[2]]] = f[2]

C26_WitnessSameName ==
    \E f \in faults :
        /\ f[1] = "rejoin"
        /\ f[4] = client_id[f[2]][1]
        /\ hpc[f[2]] = "joined"

(***************************************************************************)
(* C27.  A handler whose connection closes or fails to decode before a     *)
(* JoinRequest was accepted ends without an insert into the registry, a    *)
(* removal from it or a broadcast.                                         *)
(***************************************************************************)
C27_AbortTouchesNothing ==
    \A c \in Conns : client_id[c] = NoId =>
        /\ hpc[c] \in {"idle", "connected", "aborted"}
        /\ c \notin Values
        /\ target[c] = NoConn
        /\ nremoves[c] = 0
        /\ nexitcasts[c] = 0
        /\ \A t \in Tasks : origin[t][2] # c

\* A handler has returned before the join beside one that has joined and
\* left.
C27_Witness ==
    \E c, d \in Conns :
        /\ hpc[c] = "aborted"
        /\ hpc[d] = "done"

(***************************************************************************)
(* C28.  The sender of every ReceiveMessage is the identity built at the   *)
(* join of the connection its SendMessage was read from: the name of the   *)
(* JoinRequest and the peer address.  Nothing the client sends after the   *)
(* join changes it.                                                        *)
(***************************************************************************)
\* The frames on r's sink that carry a ReceiveMessage.
Received(r) ==
    {i \in 1..Len(write_msg[r]) : write_msg[r][i].msg.type = "ReceiveMessage"}

C28_SenderIsJoinIdentity ==
    /\ \A t \in Tasks : tasks[t].msg.type = "ReceiveMessage" =>
            LET c == tasks[t].msg.src IN
            /\ origin[t] = <<"send", c>>
            /\ tasks[t].msg.sender = client_id[c]
            /\ tasks[t].msg.sender[2] = haddr[c]
            /\ TasksOf("join", c) # {}
            /\ \A j \in TasksOf("join", c) :
                    tasks[t].msg.sender \in tasks[j].msg.clients
    /\ \A r \in Conns : \A i \in Received(r) :
            \E t \in Tasks :
                /\ write_msg[r][i].by = Task(t)
                /\ write_msg[r][i].msg = tasks[t].msg

\* A ReceiveMessage is on a sink whose SendMessage came after a JoinRequest
\* under another name on the joined connection.
C28_Witness ==
    \E f \in faults : \E r \in Conns : \E i \in Received(r) :
        /\ f[1] = "rejoin"
        /\ f[4] # client_id[f[2]][1]
        /\ write_msg[r][i].msg.src = f[2]
        /\ write_msg[r][i].msg.seq > f[3]

(***************************************************************************)
(* C29.  Server::broadcast returns only after the send to every recipient  *)
(* of its snapshot has finished, written or failed.  A send that fails     *)
(* does not stop the sends that remain, reaches no handler and leaves the  *)
(* registry as it is.                                                      *)
(***************************************************************************)
\* Every send of broadcast t has finished.
AllSent(t) ==
    /\ tasks[t].todo = {}
    /\ \A r \in Conns : lock[r] # Task(t)
    /\ \A r \in tasks[t].rcpts : WritesBy(t, r) # {} \/ FailedSend(t, r)

\* The sends of broadcast t that have not finished, but for the one to r.
Unfinished(t, r) ==
    tasks[t].todo \cup {q \in Conns \ {r} : lock[q] = Task(t)}

C29_BroadcastCompletes ==
    [][\A t \in Tasks :
            /\ tasks'[t].pc = "done" => AllSent(t)'
            /\ \A r \in Conns : TaskSendFailed(t, r) =>
                    /\ Unfinished(t, r) # {} => tasks'[t].pc = "running"
                    /\ Unfinished(t, r)' = Unfinished(t, r)
                    /\ hpc' = hpc
                    /\ clients' = clients
                    /\ regver' = regver
                    /\ write_msg' = write_msg]_vars

\* A broadcast has returned after one send failed and another was written;
\* the recipient of the failed send is in the registry and the handler that
\* spawned the broadcast reads on.
C29_Witness ==
    \E t \in Tasks : \E r, q \in Conns :
        /\ tasks[t].pc = "done"
        /\ FailedSend(t, r)
        /\ q # r
        /\ WritesBy(t, q) # {}
        /\ r \in Values
        /\ hpc[origin[t][2]] = "joined"

(***************************************************************************)
(* C31.  The exit of a connection removes that connection's own record     *)
(* only: after a newer connection has joined under the equal identity and  *)
(* superseded the entry, the older one's exit leaves the newer record, and *)
(* every joined connection has an entry under its identity until it exits. *)
(***************************************************************************)
C31_ExitRemovesOwn ==
    \A c \in Conns :
        hpc[c] = "joined" => clients[client_id[c]] # NoConn

\* Every joined connection has its entry while no two connections have
\* joined under one identity.
C31_ExitRemovesOwnDistinct == DistinctIds => C31_ExitRemovesOwn

(***************************************************************************)
(* C32.  No connection handler panics, however the handlers interleave:    *)
(* the lookup of the record just inserted, which precedes the write of     *)
(* AcceptJoin, finds the record whatever other handlers insert or remove.  *)
(***************************************************************************)
C32_NoHandlerPanics ==
    \A c \in Conns :
        /\ hpc[c] # "panicked"
        /\ hpc[c] = "inserted" => clients[client_id[c]] # NoConn

\* The lookup finds a record while no two connections have joined under one
\* identity.
C32_NoHandlerPanicsDistinct == DistinctIds => C32_NoHandlerPanics

(***************************************************************************)
(* C33.  A failure of the write of AcceptJoin is fatal to the connection:  *)
(* its handler does not enter the Joined read loop, and the exit sequence  *)
(* removes its identity from the registry.                                 *)
(***************************************************************************)
C33_ReplyFailureFatal ==
    \A c \in Conns : AcceptJoinFailed(c) =>
        /\ hpc[c] # "joined"
        /\ TasksOf("join", c) = {}
        /\ hpc[c] = "done" => nremoves[c] = 1

(***************************************************************************)
(* C34.  When both peers of a reliable connection call handshake() at the  *)
(* same time, neither waits for the other's Handshake before it sends its  *)
(* own: the exchange does not deadlock and both calls return an            *)
(* established stream in the end.                                          *)
(***************************************************************************)
C34_HandshakeCompletes ==
    <>(\A e \in Peers : spc[e] = "established" /\ shs[e].ok)

\* Both peers have sent their Handshake and neither has read the other's.
C34_Witness ==
    \A e \in Peers :
        /\ spc[e] = "sent"
        /\ sout[e] = <<"Handshake">>
        /\ sseen[e] = <<>>

(***************************************************************************)
(* C35.  Under one connection key no two Encrypted envelopes that          *)
(* start_send has sent carry the same nonce.                               *)
(***************************************************************************)
\* The Encrypted envelopes e has sent, by their place in what e has sent.
Sealed(e) == {i \in 1..Len(smade[e]) : smade[e][i].kind = "Encrypted"}

RECURSIVE FramesOf(_)
FramesOf(wire) ==
    LET d == FrameDecode(wire) IN
    IF d.state = "frame"
    THEN LET more == FramesOf(d.rest) IN
         [frames |-> <<d.frame>> \o more.frames, rest |-> more.rest]
    ELSE [frames |-> <<>>, rest |-> wire]

C36_OneFramePerRecord ==
    \A k \in StreamKinds :
        LET w == FramesOf(cwire[k])
            got == Len(crecv[k]) IN
        /\ w.rest = <<>>
        /\ got + Len(w.frames) = Len(csent[k])
        /\ \A i \in 1..got : crecv[k][i] = Ok(csent[k][i])
        /\ \A j \in 1..Len(w.frames) :
                PollNext(k, w.frames[j]) = Ok(csent[k][got + j])

\* Two records that differ went over one stream, both frames were on the
\* wire together, and both were yielded.
C36_Witness ==
    \E k \in StreamKinds :
        /\ Len(crecv[k]) = 2
        /\ cwire[k] = <<>>
        /\ csent[k][1] # csent[k][2]

C36_WitnessQueued ==
    \E k \in StreamKinds :
        /\ Len(FramesOf(cwire[k]).frames) = 2
        /\ csent[k][1] # csent[k][2]

(***************************************************************************)
(* C37.  The editor's mode changes only by the transitions of ModeTable:   *)
(* from Normal a press of 'i', 'v' or ':' enters Insert, Visual or         *)
(* Command; Esc in Insert, Visual or Command, Enter in Command and 'y' or  *)
(* 'd' in Visual return to Normal; a press of one of these keys makes the  *)
(* transition and no other key event changes the mode.                     *)
(***************************************************************************)
\* <<mode, key code, mode after>>
ModeTable ==
    {<<"Normal", "i", "Insert">>, <<"Normal", "v", "Visual">>,
     <<"Normal", ":", "Command">>, <<"Insert", "Esc", "Normal">>,
     <<"Visual", "Esc", "Normal">>, <<"Command", "Esc", "Normal">>,
     <<"Command", "Enter", "Normal">>, <<"Visual", "y", "Normal">>,
     <<"Visual", "d", "Normal">>}

C37_ModeTransitions ==
    \A event \in KeyEvents : \A o \in input(event) :
        /\ o.mode # mode => <<mode, event.code, o.mode>> \in ModeTable
        /\ (o.mode # mode /\ event.code # "Esc") => event.kind = "Press"
        /\ (event.kind = "Press"
                /\ \E m \in {"Normal", "Insert", "Visual", "Command"} :
                        <<mode, event.code, m>> \in ModeTable)
            => <<mode, event.code, o.mode>> \in ModeTable

\* The mode changes in no step but the handling of a key event.
C37_ModeSteps ==
    [][mode' # mode =>
        /\ nkeys' = nkeys + 1
        /\ \E event \in KeysIn(mode) :
                <<mode, event.code, mode'>> \in ModeTable]_vars

\* The editor has been in Insert and in Command and is in Visual: a text
\* was typed, a command was entered and 'v' was pressed.
C37_Witness ==
    /\ mode = "Visual"
    /\ text_area # <<>>
    /\ entered # <<>>

(***************************************************************************)
(* C38.  When ':wq' or ':qw' is entered in Command mode the SendMessage    *)
(* event with the text area's content is queued before the Quit event,     *)
(* and the message has been written to the server connection when the      *)
(* interactive loop exits.                                                 *)
(***************************************************************************)
WriteQuit == {<<":", "w", "q">>, <<":", "q", "w">>}

\* The command entered last is ':wq' or ':qw'.
WriteQuitEntered ==
    entered # <<>> /\ entered[Len(entered)] \in WriteQuit

C38_WrittenBeforeExit ==
    /\ (mode = "Command" /\ command_text_area \in WriteQuit)
        => \A o \in command_input(Press("Enter")) :
                /\ Len(o.out) = 2
                /\ o.out[1].type = "SendMessage"
                /\ o.out[1].content \in Yanked
                /\ o.out[2] = Quit
    /\ (WriteQuitEntered /\ ipc = "exited")
        => writes = <<>> /\ wrote # <<>>

\* The queueing alone: SendMessage is sent before Quit.
C38_SendQueuedBeforeQuit ==
    (mode = "Command" /\ command_text_area \in WriteQuit)
        => \A o \in command_input(Press("Enter")) :
                /\ Len(o.out) = 2
                /\ o.out[1].type = "SendMessage"
                /\ o.out[1].content \in Yanked
                /\ o.out[2] = Quit

\* The loop has exited on ':wq' with a text in the text area, and the write
\* of the message has not run.
C38_ExitedUnwritten ==
    /\ WriteQuitEntered
    /\ ipc = "exited"
    /\ writes # <<>>
    /\ wrote = <<>>

\* ':wq' is about to be entered with a text in the text area.
C38_WriteQuitReady ==
    /\ mode = "Command"
    /\ command_text_area \in WriteQuit
    /\ text_area # <<>>

(***************************************************************************)
(* C39.  Action::from_key maps each digit character '0'..'9' to Number(d)  *)
(* with d its value, and Action::update makes Number(n) followed by the    *)
(* digit d Number(10 * n + d) and CharNumber(c, n) followed by d           *)
(* CharNumber(c, 10 * n + d).                                              *)
(***************************************************************************)
\* The claim for the digits of ds.
DigitsAccumulate(ds) ==
    \A d \in ds :
        /\ from_key(d) = ActionNumber(DigitOf[d])
        /\ prev_action.tag = "Number"
            => update(prev_action, Press(d))
                    = ActionNumber(10 * prev_action.num + DigitOf[d])
        /\ prev_action.tag = "CharNumber"
            => update(prev_action, Press(d))
                    = ActionCharNumber(prev_action.ch,
                                       10 * prev_action.num + DigitOf[d])

C39_DigitsAccumulate == DigitsAccumulate(Digits)

\* The claim holds of every digit but '9'.
C39_DigitsBelowNine == DigitsAccumulate(Digits \ {"9"})

\* The widget holds a count of two digits, and a count after a character.
C39_CountReached == prev_action.tag = "Number" /\ prev_action.num > 9
C39_CharCountReached == prev_action.tag = "CharNumber"

====
